---- MODULE Spec2Model ----
(***************************************************************************)
(* Model of explainable_ai_sdk/metadata/tf/v1/monkey_patch_utils.py:       *)
(* EstimatorMonkeyPatchHelper.  The module-level attributes that the       *)
(* helper rewrites are shared by every helper instance; the registry       *)
(* (feature_tensors_dict, output_tensors_dict, crossed_columns) and the    *)
(* saved originals (the _actual_ attributes) belong to one helper instance. *)
(***************************************************************************)
EXTENDS Integers, Sequences, FiniteSets, TLC

VARIABLES
  attrs,                 \* entry point -> the function object it currently holds
  actual,                \* helper -> its _actual_ attributes (saved originals)
  feature_tensors_dict,  \* helper -> {feature name: [FeatureTensors, ...]}
  output_tensors_dict,   \* helper -> {output key: tensor}
  crossed_columns,       \* helper -> set of feature names
  scopes,                \* the exporting_context() generators created so far
  scopeLog,              \* what the last enter/exit of a scope did (history)
  callLog,               \* what the last call of an entry point did (history)
  ncalls,                \* number of entry point calls made so far
  \* model/explanation.py: Explanation
  response,              \* attributions_by_label of the response, in order
  explanationLog,        \* what the last operation on the Explanation did
  \* metadata/tf/v2/saved_model_metadata_builder.py: SavedModelMetadataBuilder
  signature,             \* input and output names of the loaded signature
  _inputs,               \* name -> InputMetadata
  _outputs,              \* name -> OutputMetadata
  written,               \* the metadata files written so far, in order
  builderLog,            \* what the last operation on the builder did
  nops                   \* number of builder operations made so far

patchVars == <<attrs, actual, feature_tensors_dict, output_tensors_dict,
               crossed_columns, scopes, scopeLog, callLog, ncalls>>

explanationVars == <<response, explanationLog>>

builderVars == <<signature, _inputs, _outputs, written, builderLog, nops>>

vars == <<patchVars, explanationVars, builderVars>>

(***************************************************************************)
(* Bounds of the model.                                                    *)
(***************************************************************************)
NumHelpers == 2   \* helper instances
MaxScopes == 2    \* scopes entered in a run of SpecScopes
MaxNesting == 1   \* scopes entered in a run of Spec
MaxCalls == 3     \* entry point calls in a run of Spec
MaxCycleCalls == 1 \* entry point calls in a run of SpecCycles
NumTensors == 2   \* distinct dense tensor objects the framework returns

Helpers == 1..NumHelpers

None == "None"

(***************************************************************************)
(* Python truthiness of an optional string: None and '' are both falsy.    *)
(***************************************************************************)
Truthy(s) == s # None /\ s # ""

(***************************************************************************)
(* Dictionaries are functions whose domain is the set of keys present.     *)
(***************************************************************************)
EmptyDict == [k \in {} |-> TRUE]

DictPut(d, k, v) == [x \in (DOMAIN d) \cup {k} |-> IF x = k THEN v ELSE d[x]]

RECURSIVE Reverse(_)
Reverse(s) == IF s = <<>> THEN <<>> ELSE Append(Reverse(Tail(s)), Head(s))

(***************************************************************************)
(* The patched objects and attributes.                                     *)
(***************************************************************************)
FEATURE_COLUMNS_TO_PATCH_DENSE ==
  <<"DenseColumn", "NumericColumn", "EmbeddingColumn", "IndicatorColumn",
    "BucketizedColumn">>

FEATURE_COLUMNS_TO_PATCH_SPARSE ==
  <<"VocabularyListCategoricalColumn", "VocabularyFileCategoricalColumn",
    "IdentityCategoricalColumn", "HashedCategoricalColumn", "CrossedColumn",
    "BucketizedColumn", "WeightedCategoricalColumn">>

SeqRange(s) == {s[i] : i \in 1..Len(s)}

\* An entry point is <<object, attribute name>>.
EntryPoints ==
  {<<c, "get_dense_tensor">> : c \in SeqRange(FEATURE_COLUMNS_TO_PATCH_DENSE)}
  \cup
  {<<c, "get_sparse_tensors">> : c \in SeqRange(FEATURE_COLUMNS_TO_PATCH_SPARSE)}
  \cup
  {<<"fc2", "_create_weighted_sum">>,
   <<"export_lib", "export_outputs_for_mode">>,
   <<"fc2", "_transform_features_v2">>}

(***************************************************************************)
(* A function object held by an entry point is the sequence of observing   *)
(* closures wrapped around the framework's own function, innermost first:  *)
(* <<>> is the framework's function itself, Append(f, w) is the closure w  *)
(* whose old_fn is f.  A closure is identified by the scope that made it.  *)
(***************************************************************************)
Original == <<>>

MakeObserving(old_fn, helper, sid, output_key) ==
  Append(old_fn, [helper |-> helper, sid |-> sid, output_key |-> output_key])

(***************************************************************************)
(* _patch_entities: for each object in turn, getattr, wrap, setattr, and   *)
(* collect the original.  Returns the new attributes, the originals and    *)
(* the order of the setattr calls.                                         *)
(***************************************************************************)
RECURSIVE patch_loop(_, _, _, _, _, _, _, _)
patch_loop(env, objects_to_patch, attr_name, helper, sid, output_key, i, acc) ==
  IF i > Len(objects_to_patch)
  THEN [env |-> env, originals |-> acc.originals, order |-> acc.order]
  ELSE LET ep == <<objects_to_patch[i], attr_name>>
           original == env[ep]
           new_attr == MakeObserving(original, helper, sid, output_key)
       IN patch_loop([env EXCEPT ![ep] = new_attr], objects_to_patch,
                     attr_name, helper, sid, output_key, i + 1,
                     [originals |-> Append(acc.originals, original),
                      order |-> Append(acc.order, ep)])

patch_entities(env, objects_to_patch, attr_name, helper, sid, output_key) ==
  patch_loop(env, objects_to_patch, attr_name, helper, sid, output_key, 1,
             [originals |-> <<>>, order |-> <<>>])

(***************************************************************************)
(* _unpatch_entities: zip(objects_patched, originals), setattr each.       *)
(***************************************************************************)
Min(a, b) == IF a < b THEN a ELSE b

RECURSIVE unpatch_loop(_, _, _, _, _, _)
unpatch_loop(env, objects_patched, attr_name, originals, i, order) ==
  IF i > Min(Len(objects_patched), Len(originals))
  THEN [env |-> env, order |-> order]
  ELSE LET ep == <<objects_patched[i], attr_name>>
       IN unpatch_loop([env EXCEPT ![ep] = originals[i]], objects_patched,
                       attr_name, originals, i + 1, Append(order, ep))

unpatch_entities(env, objects_patched, attr_name, originals) ==
  unpatch_loop(env, objects_patched, attr_name, originals, 1, <<>>)

(***************************************************************************)
(* _patch_estimator_to_observe: five _patch_entities calls in this order.  *)
(* Only the export_outputs_for_mode closure receives output_key.           *)
(***************************************************************************)
patch_estimator_to_observe(env, helper, sid, output_key) ==
  LET p1 == patch_entities(env, FEATURE_COLUMNS_TO_PATCH_DENSE,
                           "get_dense_tensor", helper, sid, None)
      p2 == patch_entities(p1.env, FEATURE_COLUMNS_TO_PATCH_SPARSE,
                           "get_sparse_tensors", helper, sid, None)
      p3 == patch_entities(p2.env, <<"fc2">>, "_create_weighted_sum",
                           helper, sid, None)
      p4 == patch_entities(p3.env, <<"export_lib">>, "export_outputs_for_mode",
                           helper, sid, output_key)
      p5 == patch_entities(p4.env, <<"fc2">>, "_transform_features_v2",
                           helper, sid, None)
  IN [env |-> p5.env,
      actual |-> [get_dense_tensor_list |-> p1.originals,
                  get_sparse_tensors_list |-> p2.originals,
                  create_weighted_sum |-> p3.originals[1],
                  export_for_mode |-> p4.originals[1],
                  transform |-> p5.originals[1]],
      order |-> p1.order \o p2.order \o p3.order \o p4.order \o p5.order]

(***************************************************************************)
(* _unpatch_estimator_to_observe: five _unpatch_entities calls, in the     *)
(* same order as the patching.                                             *)
(***************************************************************************)
unpatch_reversed(env, saved) ==
  LET Rev(objs, attr_name, originals, e) ==
        unpatch_entities(e, Reverse(objs), attr_name, Reverse(originals))
      u5 == Rev(<<"fc2">>, "_transform_features_v2", <<saved.transform>>, env)
      u4 == Rev(<<"export_lib">>, "export_outputs_for_mode",
                <<saved.export_for_mode>>, u5.env)
      u3 == Rev(<<"fc2">>, "_create_weighted_sum",
                <<saved.create_weighted_sum>>, u4.env)
      u2 == Rev(FEATURE_COLUMNS_TO_PATCH_SPARSE, "get_sparse_tensors",
                saved.get_sparse_tensors_list, u3.env)
      u1 == Rev(FEATURE_COLUMNS_TO_PATCH_DENSE, "get_dense_tensor",
                saved.get_dense_tensor_list, u2.env)
  IN [env |-> u1.env,
      order |-> u5.order \o u4.order \o u3.order \o u2.order \o u1.order]

unpatch_estimator_to_observe(env, saved) ==
  LET u1 == unpatch_entities(env, FEATURE_COLUMNS_TO_PATCH_DENSE,
                             "get_dense_tensor", saved.get_dense_tensor_list)
      u2 == unpatch_entities(u1.env, FEATURE_COLUMNS_TO_PATCH_SPARSE,
                             "get_sparse_tensors",
                             saved.get_sparse_tensors_list)
      u3 == unpatch_entities(u2.env, <<"fc2">>, "_create_weighted_sum",
                             <<saved.create_weighted_sum>>)
      u4 == unpatch_entities(u3.env, <<"export_lib">>,
                             "export_outputs_for_mode",
                             <<saved.export_for_mode>>)
      u5 == unpatch_entities(u4.env, <<"fc2">>, "_transform_features_v2",
                             <<saved.transform>>)
  IN [env |-> u5.env,
      order |-> u1.order \o u2.order \o u3.order \o u4.order \o u5.order]

(***************************************************************************)
(* Tensor handles.  A tensor object has an identity (id); val stands for   *)
(* its structure (type, shape, contents), which two distinct objects can   *)
(* share; sparse says whether it is a tf.SparseTensor.  The dense tensors  *)
(* 2k-1 and 2k are distinct objects of equal structure.                    *)
(***************************************************************************)
Tensor(i) == [kind |-> "tensor", id |-> i, val |-> (i + 1) \div 2,
              sparse |-> FALSE]

Tensors == {Tensor(i) : i \in 1..NumTensors}

SparseTensor == [kind |-> "tensor", id |-> 0, val |-> 0, sparse |-> TRUE]

\* fc2.CategoricalColumn.IdWeightPair(id_tensor, weight_tensor): a namedtuple.
IdWeightPair(id_tensor, weight_tensor) ==
  [kind |-> "pair", id_tensor |-> id_tensor, weight_tensor |-> weight_tensor]

(***************************************************************************)
(* Python's == on handles, as used by the "in" tests of the helper:        *)
(* tensor objects compare by identity, a namedtuple compares its           *)
(* components.                                                             *)
(***************************************************************************)
HandleEqByValue(a, b) ==
  IF a.kind = "tensor" /\ b.kind = "tensor" THEN a.val = b.val
  ELSE IF a.kind = "pair" /\ b.kind = "pair"
       THEN a.id_tensor.val = b.id_tensor.val
       ELSE FALSE

\* (defined above: HandleEqByValue compares structure instead of identity)
HandleEq(a, b) ==
  IF a.kind = "tensor" /\ b.kind = "tensor" THEN a.id = b.id
  ELSE IF a.kind = "pair" /\ b.kind = "pair"
       THEN a.id_tensor.id = b.id_tensor.id /\ a.weight_tensor = b.weight_tensor
       ELSE FALSE

\* tensor in list
HandleIn(tensor, list) == \E i \in 1..Len(list) : HandleEq(tensor, list[i])

(***************************************************************************)
(* Feature columns the export may call the entry points with.  cls is the  *)
(* column's class, categorical_column the attribute of that name (None if  *)
(* the column has no such attribute), keys the keys of a crossed column.   *)
(***************************************************************************)
Col(cls, name, categorical_column, keys) ==
  [cls |-> cls, name |-> name, categorical_column |-> categorical_column,
   keys |-> keys]

Column ==
  [age |-> Col("NumericColumn", "age", None, <<>>),
   age_bucketized |-> Col("BucketizedColumn", "age_bucketized", None, <<>>),
   color |-> Col("VocabularyListCategoricalColumn", "color", None, <<>>),
   size |-> Col("IdentityCategoricalColumn", "size", None, <<>>),
   color_weighted |-> Col("WeightedCategoricalColumn", "color_weighted_by_w",
                          "color", <<>>),
   color_X_size |-> Col("CrossedColumn", "color_X_size", None,
                        <<"color", "size">>),
   color_embedding |-> Col("EmbeddingColumn", "color_embedding", "color",
                           <<>>),
   cross_indicator |-> Col("IndicatorColumn", "color_X_size_indicator",
                           "color_X_size", <<>>),
   bucket_indicator |-> Col("IndicatorColumn", "age_bucketized_indicator",
                            "age_bucketized", <<>>)]

ColumnIds == DOMAIN Column

\* isinstance(fc, fc2.BucketizedColumn), fc2.CrossedColumn, ...
IsBucketized(c) == Column[c].cls = "BucketizedColumn"
IsCrossed(c) == Column[c].cls = "CrossedColumn"
IsWeighted(c) == Column[c].cls = "WeightedCategoricalColumn"
\* isinstance(column, fc2.CategoricalColumn): the categorical classes of the
\* hierarchy in the module docstring; a bucketized column is both.
IsCategorical(c) ==
  Column[c].cls \in SeqRange(FEATURE_COLUMNS_TO_PATCH_SPARSE)
\* hasattr(fc, 'categorical_column')
HasCategoricalColumn(c) == Column[c].categorical_column # None

(***************************************************************************)
(* FeatureTensors(input_tensor): encoded_tensors = () or [] is a new list. *)
(***************************************************************************)
FeatureTensors(input_tensor) ==
  [input_tensor |-> input_tensor, encoded_tensors |-> <<>>]

InputTensors(feature_tensors_list) ==
  [i \in 1..Len(feature_tensors_list) |-> feature_tensors_list[i].input_tensor]

(***************************************************************************)
(* _add_input_tensor_to_dict(feature_tensors, fc, tensor)                  *)
(***************************************************************************)
\* Variant without the test that the tensor is the input of a record.
add_input_always_appends(feature_tensors, fc, tensor) ==
  LET name == Column[fc].name
      feature_tensors_list ==
        IF name \in DOMAIN feature_tensors THEN feature_tensors[name] ELSE <<>>
  IN DictPut(feature_tensors, name,
             Append(feature_tensors_list, FeatureTensors(tensor)))

\* Variant that stores the list of the name without the new record.
add_input_stores_list_only(feature_tensors, fc, tensor) ==
  LET name == Column[fc].name
      feature_tensors_list ==
        IF name \in DOMAIN feature_tensors THEN feature_tensors[name] ELSE <<>>
  IN DictPut(feature_tensors, name, feature_tensors_list)

add_input_tensor_to_dict(feature_tensors, fc, tensor) ==
  LET name == Column[fc].name
      feature_tensors_list ==
        IF name \in DOMAIN feature_tensors THEN feature_tensors[name] ELSE <<>>
      appended ==
        IF ~HandleIn(tensor, InputTensors(feature_tensors_list))
        THEN Append(feature_tensors_list, FeatureTensors(tensor))
        ELSE feature_tensors_list
  IN DictPut(feature_tensors, name, appended)

\* Variant that creates the record instead of raising.
add_encoded_creates_record(feature_tensors, fc, tensor) ==
  LET name == Column[fc].name
      list == IF name \in DOMAIN feature_tensors THEN feature_tensors[name]
              ELSE <<[input_tensor |-> None, encoded_tensors |-> <<>>]>>
      last == Len(list)
  IN [raised |-> FALSE,
      feature_tensors |->
        DictPut(feature_tensors, name,
                [list EXCEPT ![last].encoded_tensors = Append(@, tensor)])]

\* Variant that skips a tensor found in the encoded list of any record of
\* the feature, not only of the last one.
add_encoded_skips_seen_anywhere(feature_tensors, fc, tensor) ==
  LET name == Column[fc].name
  IN IF name \notin DOMAIN feature_tensors
     THEN [raised |-> TRUE, feature_tensors |-> feature_tensors]
     ELSE LET last == Len(feature_tensors[name])
              seen == \E i \in 1..last :
                        HandleIn(tensor, feature_tensors[name][i].encoded_tensors)
          IN IF ~seen
             THEN [raised |-> FALSE,
                   feature_tensors |->
                     [feature_tensors EXCEPT ![name][last].encoded_tensors =
                        Append(@, tensor)]]
             ELSE [raised |-> FALSE, feature_tensors |-> feature_tensors]

(***************************************************************************)
(* _add_encoded_tensor_to_dict(feature_tensors, fc, tensor): raises        *)
(* ValueError when fc.name is not a key, else appends to the last record   *)
(* of the feature unless the tensor is in its encoded list.                *)
(***************************************************************************)
add_encoded_tensor_to_dict(feature_tensors, fc, tensor) ==
  LET name == Column[fc].name
  IN IF name \notin DOMAIN feature_tensors
     THEN [raised |-> TRUE, feature_tensors |-> feature_tensors]
     ELSE LET last == Len(feature_tensors[name])
              feature_tensor == feature_tensors[name][last]
          IN IF ~HandleIn(tensor, feature_tensor.encoded_tensors)
             THEN [raised |-> FALSE,
                   feature_tensors |->
                     [feature_tensors EXCEPT ![name][last].encoded_tensors =
                        Append(feature_tensor.encoded_tensors, tensor)]]
             ELSE [raised |-> FALSE, feature_tensors |-> feature_tensors]

(***************************************************************************)
(* The part of each observing closure that reads and writes the registry   *)
(* of its helper.  reg is that registry:                                   *)
(*   [feature_tensors, outputs, crossed].                                  *)
(* Each returns [reg, raised]: the registry as the closure leaves it and   *)
(* whether it raised ValueError.                                           *)
(***************************************************************************)
Done(reg) == [reg |-> reg, raised |-> FALSE]
Raise(reg) == [reg |-> reg, raised |-> TRUE]

\* for column in fc.keys: crossed_columns.add(column.name);
\*                        self._add_encoded_tensor_to_dict(...)
RECURSIVE crossed_keys_loop(_, _, _, _)

\* Variant that records the encoded tensor under the first key only.
crossed_keys_first_only(reg, keys, i, result) ==
  IF i > Len(keys) THEN Done(reg)
  ELSE LET added == [reg EXCEPT !.crossed =
                       @ \cup {Column[k].name : k \in SeqRange(keys)}]
           e == add_encoded_tensor_to_dict(added.feature_tensors, keys[1],
                                           result)
       IN [reg |-> [added EXCEPT !.feature_tensors = e.feature_tensors],
           raised |-> e.raised]

\* Variant that looks for a key without an input record before it writes
\* anything.
crossed_keys_all_or_nothing(reg, keys, i, result) ==
  LET names == {Column[keys[j]].name : j \in i..Len(keys)}
      ft == reg.feature_tensors
      encoded(n) ==
        IF HandleIn(result, ft[n][Len(ft[n])].encoded_tensors) THEN ft[n]
        ELSE [ft[n] EXCEPT ![Len(ft[n])].encoded_tensors = Append(@, result)]
  IN IF ~(names \subseteq DOMAIN ft) THEN Raise(reg)
     ELSE Done([reg EXCEPT
                  !.crossed = @ \cup names,
                  !.feature_tensors =
                    [n \in DOMAIN ft |-> IF n \in names THEN encoded(n)
                                         ELSE ft[n]]])

crossed_keys_loop(reg, keys, i, result) ==
  IF i > Len(keys) THEN Done(reg)
  ELSE LET added == [reg EXCEPT !.crossed = @ \cup {Column[keys[i]].name}]
           e == add_encoded_tensor_to_dict(added.feature_tensors, keys[i],
                                           result)
       IN IF e.raised THEN Raise(added)
          ELSE crossed_keys_loop(
                 [added EXCEPT !.feature_tensors = e.feature_tensors],
                 keys, i + 1, result)

\* Variant without the two tests for a bucketized column.
observe_get_dense_records_bucketized(reg, instance, result) ==
  IF HasCategoricalColumn(instance)
  THEN LET fc == Column[instance].categorical_column
       IN IF IsCrossed(fc)
          THEN crossed_keys_loop(reg, Column[fc].keys, 1, result)
          ELSE Done([reg EXCEPT !.feature_tensors =
                       add_input_tensor_to_dict(@, fc, result)])
  ELSE Done([reg EXCEPT !.feature_tensors =
               add_input_tensor_to_dict(@, instance, result)])

\* Variant that records every dense result as an input observation under
\* the name of the subject itself.
observe_get_dense_always_input(reg, instance, result) ==
  IF IsBucketized(instance) THEN Done(reg)
  ELSE Done([reg EXCEPT !.feature_tensors =
               add_input_tensor_to_dict(@, instance, result)])

\* _observing_get_dense_tensor, after result = old_fn(...)
observe_get_dense_tensor(reg, instance, result) ==
  IF HasCategoricalColumn(instance)
  THEN LET fc == Column[instance].categorical_column
       IN IF IsBucketized(fc) THEN Done(reg)
          ELSE IF IsCrossed(fc)
               THEN crossed_keys_loop(reg, Column[fc].keys, 1, result)
               ELSE LET e == add_encoded_tensor_to_dict(reg.feature_tensors,
                                                        fc, result)
                    IN [reg |-> [reg EXCEPT !.feature_tensors =
                                   e.feature_tensors],
                        raised |-> e.raised]
  ELSE IF ~IsBucketized(instance)
       THEN Done([reg EXCEPT !.feature_tensors =
                    add_input_tensor_to_dict(@, instance, result)])
       ELSE Done(reg)

\* Variant that records a weighted column under the wrapper's own name.
observe_get_sparse_under_own_name(reg, instance, result) ==
  IF ~(IsCrossed(instance) \/ IsBucketized(instance))
  THEN Done([reg EXCEPT !.feature_tensors =
               add_input_tensor_to_dict(@, instance, result)])
  ELSE Done(reg)

\* _observing_get_sparse_tensors, after result = old_fn(...)
observe_get_sparse_tensors(reg, instance, result) ==
  IF ~(IsCrossed(instance) \/ IsBucketized(instance))
  THEN LET fc == IF ~IsWeighted(instance) THEN instance
                 ELSE Column[instance].categorical_column
       IN Done([reg EXCEPT !.feature_tensors =
                  add_input_tensor_to_dict(@, fc, result)])
  ELSE Done(reg)

\* _observing_create_weighted_sum, after result = old_fn(...)
observe_create_weighted_sum(reg, column, result) ==
  IF IsCategorical(column) /\ ~IsBucketized(column)
  THEN IF IsCrossed(column)
       THEN Done([reg EXCEPT !.crossed =
                    @ \cup {Column[k].name : k \in SeqRange(Column[column].keys)}])
       ELSE LET fc == IF HasCategoricalColumn(column)
                      THEN Column[column].categorical_column ELSE column
                e == add_encoded_tensor_to_dict(reg.feature_tensors, fc,
                                                result)
            IN [reg |-> [reg EXCEPT !.feature_tensors = e.feature_tensors],
                raised |-> e.raised]
  ELSE Done(reg)

\* _observing_transform_features_v2, after result = old_fn(...): the loop
\* over result.items().  The columns of a result have distinct names, so the
\* outcome does not depend on the order of the items.
RECURSIVE transform_items_loop(_, _, _)
transform_items_loop(reg, result, todo) ==
  IF todo = {} THEN Done(reg)
  ELSE LET fc == CHOOSE c \in todo : TRUE
           tensor == IF result[fc].sparse
                     THEN IdWeightPair(result[fc], None) ELSE result[fc]
           next ==
             IF ~HasCategoricalColumn(fc)
                /\ Column[fc].name \notin DOMAIN reg.feature_tensors
             THEN [reg EXCEPT !.feature_tensors =
                     add_input_tensor_to_dict(@, fc, tensor)]
             ELSE reg
       IN transform_items_loop(next, result, todo \ {fc})

\* Variant without the test that the name has no entry yet.
RECURSIVE transform_items_unconditional(_, _, _)
transform_items_unconditional(reg, result, todo) ==
  IF todo = {} THEN Done(reg)
  ELSE LET fc == CHOOSE c \in todo : TRUE
           tensor == IF result[fc].sparse
                     THEN IdWeightPair(result[fc], None) ELSE result[fc]
           next ==
             IF ~HasCategoricalColumn(fc)
             THEN [reg EXCEPT !.feature_tensors =
                     add_input_tensor_to_dict(@, fc, tensor)]
             ELSE reg
       IN transform_items_unconditional(next, result, todo \ {fc})

observe_transform_always_records(reg, result) ==
  transform_items_unconditional(reg, result, DOMAIN result)

observe_transform_features_v2(reg, result) ==
  transform_items_loop(reg, result, DOMAIN result)

\* prediction_keys.PredictionKeys
LOGITS == "logits"
PREDICTIONS == "predictions"

\* Variant that prefers the predictions key over the logits key.
observe_export_prefers_predictions(reg, output_key, predictions) ==
  IF Truthy(output_key)
  THEN IF output_key \notin DOMAIN predictions THEN Raise(reg)
       ELSE Done([reg EXCEPT !.outputs =
                    DictPut(@, output_key, predictions[output_key])])
  ELSE IF PREDICTIONS \in DOMAIN predictions
       THEN Done([reg EXCEPT !.outputs =
                    DictPut(@, PREDICTIONS, predictions[PREDICTIONS])])
       ELSE IF LOGITS \in DOMAIN predictions
            THEN Done([reg EXCEPT !.outputs =
                         DictPut(@, LOGITS, predictions[LOGITS])])
            ELSE Raise(reg)

\* Variant that infers the key when the configured key is missing.
observe_export_falls_back(reg, output_key, predictions) ==
  IF Truthy(output_key) /\ output_key \in DOMAIN predictions
  THEN Done([reg EXCEPT !.outputs =
               DictPut(@, output_key, predictions[output_key])])
  ELSE IF LOGITS \in DOMAIN predictions
       THEN Done([reg EXCEPT !.outputs =
                    DictPut(@, LOGITS, predictions[LOGITS])])
       ELSE IF PREDICTIONS \in DOMAIN predictions
            THEN Done([reg EXCEPT !.outputs =
                         DictPut(@, PREDICTIONS, predictions[PREDICTIONS])])
            ELSE Raise(reg)

\* _observing_export_outputs_for_mode, before result = old_fn(...)
observe_export_outputs_for_mode(reg, output_key, predictions) ==
  IF Truthy(output_key)
  THEN IF output_key \notin DOMAIN predictions THEN Raise(reg)
       ELSE Done([reg EXCEPT !.outputs =
                    DictPut(@, output_key, predictions[output_key])])
  ELSE IF LOGITS \in DOMAIN predictions
       THEN Done([reg EXCEPT !.outputs =
                    DictPut(@, LOGITS, predictions[LOGITS])])
       ELSE IF PREDICTIONS \in DOMAIN predictions
            THEN Done([reg EXCEPT !.outputs =
                         DictPut(@, PREDICTIONS, predictions[PREDICTIONS])])
            ELSE Raise(reg)

(***************************************************************************)
(* Calling the function object an entry point holds.  world is the         *)
(* registry of every helper, [feature_tensors, outputs, crossed], each a   *)
(* function of the helper; args is [instance, predictions, result], where  *)
(* result is the value the framework's own function returns for the call.  *)
(* Apply returns                                                           *)
(*   world    the registries after the call,                               *)
(*   raised   whether the call ended with ValueError,                      *)
(*   result   the value returned (None when it raised),                    *)
(*   events   what happened, in order: "framework" (the framework's        *)
(*            function ran), and for the closure made by scope sid:        *)
(*            "old_fn" (it called old_fn), "observe" (it ran its own       *)
(*            recording code), "raise", "return",                          *)
(*   closures for each closure that ran its recording code: its helper's   *)
(*            registry before (pre) and after (post) and whether it raised.*)
(***************************************************************************)
RegOf(world, h) ==
  [feature_tensors |-> world.feature_tensors[h],
   outputs |-> world.outputs[h],
   crossed |-> world.crossed[h]]

SetReg(world, h, reg) ==
  [feature_tensors |-> [world.feature_tensors EXCEPT ![h] = reg.feature_tensors],
   outputs |-> [world.outputs EXCEPT ![h] = reg.outputs],
   crossed |-> [world.crossed EXCEPT ![h] = reg.crossed]]

Event(ev, w) == [ev |-> ev, sid |-> w.sid]

ClosureLog(w, attr_name, pre, o) ==
  [sid |-> w.sid, helper |-> w.helper, output_key |-> w.output_key,
   attr_name |-> attr_name, pre |-> pre, post |-> o.reg, raised |-> o.raised]

RECURSIVE Apply(_, _, _, _)

\* result = old_fn(...); <recording code>; return result
after_old_fn(w, attr_name, inner, Observe(_, _)) ==
  IF inner.raised
  THEN [inner EXCEPT !.events = <<Event("old_fn", w)>> \o @]
  ELSE LET pre == RegOf(inner.world, w.helper)
           o == Observe(pre, inner.result)
       IN [world |-> SetReg(inner.world, w.helper, o.reg),
           raised |-> o.raised,
           result |-> IF o.raised THEN None ELSE inner.result,
           events |-> <<Event("old_fn", w)>> \o inner.events
                      \o <<Event("observe", w),
                           Event(IF o.raised THEN "raise" ELSE "return", w)>>,
           closures |-> Append(inner.closures,
                               ClosureLog(w, attr_name, pre, o))]

observing_get_dense_tensor(w, old_fn, args, world) ==
  LET Observe(reg, result) ==
        observe_get_dense_tensor(reg, args.instance, result)
  IN after_old_fn(w, "get_dense_tensor",
                  Apply(old_fn, "get_dense_tensor", args, world), Observe)

observing_get_sparse_tensors(w, old_fn, args, world) ==
  LET Observe(reg, result) ==
        observe_get_sparse_tensors(reg, args.instance, result)
  IN after_old_fn(w, "get_sparse_tensors",
                  Apply(old_fn, "get_sparse_tensors", args, world), Observe)

observing_create_weighted_sum(w, old_fn, args, world) ==
  LET Observe(reg, result) ==
        observe_create_weighted_sum(reg, args.instance, result)
  IN after_old_fn(w, "_create_weighted_sum",
                  Apply(old_fn, "_create_weighted_sum", args, world), Observe)

observing_transform_features_v2(w, old_fn, args, world) ==
  LET Observe(reg, result) == observe_transform_features_v2(reg, result)
  IN after_old_fn(w, "_transform_features_v2",
                  Apply(old_fn, "_transform_features_v2", args, world),
                  Observe)

\* Variant that calls old_fn before its recording code, like the other four.
observing_export_calls_old_fn_first(w, old_fn, args, world) ==
  LET Observe(reg, result) ==
        observe_export_outputs_for_mode(reg, w.output_key, args.predictions)
  IN after_old_fn(w, "export_outputs_for_mode",
                  Apply(old_fn, "export_outputs_for_mode", args, world),
                  Observe)

\* <recording code, which may raise>; result = old_fn(...); return result
observing_export_outputs_for_mode(w, old_fn, args, world) ==
  LET pre == RegOf(world, w.helper)
      o == observe_export_outputs_for_mode(pre, w.output_key,
                                           args.predictions)
      log == ClosureLog(w, "export_outputs_for_mode", pre, o)
  IN IF o.raised
     THEN [world |-> SetReg(world, w.helper, o.reg),
           raised |-> TRUE,
           result |-> None,
           events |-> <<Event("observe", w), Event("raise", w)>>,
           closures |-> <<log>>]
     ELSE LET inner == Apply(old_fn, "export_outputs_for_mode", args,
                             SetReg(world, w.helper, o.reg))
          IN [world |-> inner.world,
              raised |-> inner.raised,
              result |-> inner.result,
              events |-> <<Event("observe", w), Event("old_fn", w)>>
                         \o inner.events
                         \o (IF inner.raised THEN <<>>
                             ELSE <<Event("return", w)>>),
              closures |-> <<log>> \o inner.closures]

Apply(fn, attr_name, args, world) ==
  IF fn = Original
  THEN [world |-> world, raised |-> FALSE, result |-> args.result,
        events |-> <<[ev |-> "framework", sid |-> 0]>>, closures |-> <<>>]
  ELSE LET w == fn[Len(fn)]
           old_fn == SubSeq(fn, 1, Len(fn) - 1)
       IN CASE attr_name = "get_dense_tensor" ->
                 observing_get_dense_tensor(w, old_fn, args, world)
            [] attr_name = "get_sparse_tensors" ->
                 observing_get_sparse_tensors(w, old_fn, args, world)
            [] attr_name = "_create_weighted_sum" ->
                 observing_create_weighted_sum(w, old_fn, args, world)
            [] attr_name = "_transform_features_v2" ->
                 observing_transform_features_v2(w, old_fn, args, world)
            [] attr_name = "export_outputs_for_mode" ->
                 observing_export_outputs_for_mode(w, old_fn, args, world)

(***************************************************************************)
(* State after import of the module and construction of the helpers        *)
(* (__init__): every entry point holds the framework's function, the       *)
(* registries are empty, no scope exists.  The _actual_ attributes do not  *)
(* exist before the first patch; they are read only by the exit of a scope *)
(* of the same helper, which follows its entry.                            *)
(***************************************************************************)
NoActual ==
  [get_dense_tensor_list |-> <<>>, get_sparse_tensors_list |-> <<>>,
   create_weighted_sum |-> Original, export_for_mode |-> Original,
   transform |-> Original]

NoScopeLog == [op |-> "none", sid |-> 0, raised |-> FALSE, order |-> <<>>]

NoArgs == [instance |-> None, predictions |-> EmptyDict, result |-> None]

NoCallLog ==
  [ep |-> <<>>, args |-> NoArgs, raised |-> FALSE, result |-> None,
   events |-> <<>>, closures |-> <<>>, active |-> {}]

NoExplanationLog ==
  [op |-> "none", class_index |-> None, raised |-> None, value |-> None]

NoBuilderLog ==
  [op |-> "none", name |-> None, new_name |-> None, raised |-> None,
   pre |-> None]

\* the helpers exist and no export has begun
InitPatch ==
  /\ attrs = [ep \in EntryPoints |-> Original]
  /\ actual = [h \in Helpers |-> NoActual]
  /\ feature_tensors_dict = [h \in Helpers |-> EmptyDict]
  /\ output_tensors_dict = [h \in Helpers |-> EmptyDict]
  /\ crossed_columns = [h \in Helpers |-> {}]
  /\ scopes = <<>>
  /\ scopeLog = NoScopeLog
  /\ callLog = NoCallLog
  /\ ncalls = 0

\* no Explanation has been built
NoExplanation ==
  /\ response = <<>>
  /\ explanationLog = NoExplanationLog

\* no SavedModelMetadataBuilder has been built
NoBuilder ==
  /\ signature = [inputs |-> {}, outputs |-> {}]
  /\ _inputs = EmptyDict
  /\ _outputs = EmptyDict
  /\ written = <<>>
  /\ builderLog = NoBuilderLog
  /\ nops = 0

Init == InitPatch /\ NoExplanation /\ NoBuilder

(***************************************************************************)
(* exporting_context(output_key): entering the context manager runs        *)
(* _patch_estimator_to_observe and suspends at the yield.                  *)
(***************************************************************************)
OutputKeys == {None, "", PREDICTIONS}

ActiveScopes == {s \in 1..Len(scopes) : scopes[s].active}

\* No operation is in flight: the caller of the last one has taken its outcome.
Idle == scopeLog = NoScopeLog /\ callLog = NoCallLog

\* Variant that starts every scope with an empty registry.
EnterScopeClearing(h, output_key) ==
  /\ Idle
  /\ LET sid == Len(scopes) + 1
         p == patch_estimator_to_observe(attrs, h, sid, output_key)
     IN /\ attrs' = p.env
        /\ actual' = [actual EXCEPT ![h] = p.actual]
        /\ scopes' = Append(scopes,
                            [helper |-> h, output_key |-> output_key,
                             active |-> TRUE,
                             before |-> attrs,
                             others |-> ActiveScopes,
                             installed |-> p.order])
        /\ scopeLog' = [op |-> "enter", sid |-> sid, raised |-> FALSE,
                        order |-> p.order]
  /\ callLog' = NoCallLog
  /\ feature_tensors_dict' = [feature_tensors_dict EXCEPT ![h] = EmptyDict]
  /\ output_tensors_dict' = [output_tensors_dict EXCEPT ![h] = EmptyDict]
  /\ crossed_columns' = [crossed_columns EXCEPT ![h] = {}]
  /\ UNCHANGED <<ncalls, explanationVars, builderVars>>

EnterScope(h, output_key) ==
  /\ Idle
  /\ LET sid == Len(scopes) + 1
         p == patch_estimator_to_observe(attrs, h, sid, output_key)
     IN /\ attrs' = p.env
        /\ actual' = [actual EXCEPT ![h] = p.actual]
        /\ scopes' = Append(scopes,
                            [helper |-> h, output_key |-> output_key,
                             active |-> TRUE,
                             before |-> attrs,
                             others |-> ActiveScopes,
                             installed |-> p.order])
        /\ scopeLog' = [op |-> "enter", sid |-> sid, raised |-> FALSE,
                        order |-> p.order]
  /\ callLog' = NoCallLog
  /\ UNCHANGED <<feature_tensors_dict, output_tensors_dict, crossed_columns,
                 ncalls, explanationVars, builderVars>>

(***************************************************************************)
(* Leaving the context manager, by normal return of the body or by an      *)
(* exception raised in it (raised): the finally clause runs                *)
(* _unpatch_estimator_to_observe on both paths, and having no except       *)
(* clause lets the exception go on to the caller of the with statement.    *)
(* Returns the attributes, the order of the setattr calls and whether an   *)
(* exception leaves the context manager.                                   *)
(***************************************************************************)
\* Variant without the finally clause: the unpatching follows the yield.
exporting_context_exit_no_finally(env, saved, raised) ==
  IF raised THEN [env |-> env, order |-> <<>>, raised |-> TRUE]
  ELSE LET u == unpatch_estimator_to_observe(env, saved)
       IN [env |-> u.env, order |-> u.order, raised |-> FALSE]

exporting_context_exit(env, saved, raised) ==
  LET u == unpatch_estimator_to_observe(env, saved)
  IN [env |-> u.env, order |-> u.order, raised |-> raised]

ExitScope(sid, raised) ==
  /\ Idle
  /\ sid \in ActiveScopes
  /\ LET h == scopes[sid].helper
         u == exporting_context_exit(attrs, actual[h], raised)
     IN /\ attrs' = u.env
        /\ scopeLog' = [op |-> "exit", sid |-> sid, raised |-> u.raised,
                        order |-> u.order]
  /\ scopes' = [scopes EXCEPT ![sid].active = FALSE]
  /\ callLog' = NoCallLog
  /\ UNCHANGED <<actual, feature_tensors_dict, output_tensors_dict,
                 crossed_columns, ncalls, explanationVars, builderVars>>

(***************************************************************************)
(* A call of an entry point, made by the export (inside a scope) or by any *)
(* other code of the process: it runs whatever the entry point holds.      *)
(***************************************************************************)
World ==
  [feature_tensors |-> feature_tensors_dict,
   outputs |-> output_tensors_dict,
   crossed |-> crossed_columns]

Call(ep, args) ==
  /\ Idle
  /\ LET r == Apply(attrs[ep], ep[2], args, World)
     IN /\ feature_tensors_dict' = r.world.feature_tensors
        /\ output_tensors_dict' = r.world.outputs
        /\ crossed_columns' = r.world.crossed
        /\ callLog' = [ep |-> ep, args |-> args, raised |-> r.raised,
                       result |-> r.result, events |-> r.events,
                       closures |-> r.closures,
                       active |-> {scopes[s].helper : s \in ActiveScopes}]
  /\ ncalls' = ncalls + 1
  /\ scopeLog' = NoScopeLog
  /\ UNCHANGED <<attrs, actual, scopes, explanationVars, builderVars>>

\* instance.get_dense_tensor(...) on a column of a patched dense class
CallGetDenseTensor(c, t) ==
  /\ Column[c].cls \in SeqRange(FEATURE_COLUMNS_TO_PATCH_DENSE)
  /\ Call(<<Column[c].cls, "get_dense_tensor">>,
          [instance |-> c, predictions |-> EmptyDict, result |-> t])

\* instance.get_sparse_tensors(...) on a column of a patched sparse class
CallGetSparseTensors(c, t) ==
  /\ Column[c].cls \in SeqRange(FEATURE_COLUMNS_TO_PATCH_SPARSE)
  /\ Call(<<Column[c].cls, "get_sparse_tensors">>,
          [instance |-> c, predictions |-> EmptyDict, result |-> t])

\* fc2._create_weighted_sum(column, ...)
CallCreateWeightedSum(c, t) ==
  Call(<<"fc2", "_create_weighted_sum">>,
       [instance |-> c, predictions |-> EmptyDict, result |-> t])

\* export_lib.export_outputs_for_mode(mode, ..., predictions, ...)
PredictionKeys == {LOGITS, PREDICTIONS}

PredictionDicts == UNION {[S -> Tensors] : S \in SUBSET PredictionKeys}

CallExportOutputsForMode(predictions) ==
  Call(<<"export_lib", "export_outputs_for_mode">>,
       [instance |-> None, predictions |-> predictions,
        result |-> "export_outputs"])

\* fc2._transform_features_v2(features, feature_columns, ...): the framework
\* returns a dictionary from each of feature_columns to its transformed
\* tensor, a sparse tensor for a categorical column and a dense one otherwise.
TransformColumnSets ==
  {{"age"}, {"age_bucketized"}, {"color_embedding"}, {"color", "size"}}

TransformOutputs(c) ==
  IF IsCategorical(c) /\ ~IsBucketized(c) THEN {SparseTensor} ELSE Tensors

TransformResults ==
  UNION {{r \in [S -> Tensors \cup {SparseTensor}] :
            \A c \in S : r[c] \in TransformOutputs(c)} :
         S \in TransformColumnSets}

CallTransformFeaturesV2(result) ==
  Call(<<"fc2", "_transform_features_v2">>,
       [instance |-> None, predictions |-> EmptyDict, result |-> result])

(***************************************************************************)
(* The ValueError of the last call, made in the body of scope sid and not  *)
(* caught there, is thrown into the generator at its yield: the scope      *)
(* exits with the exception in flight.                                     *)
(***************************************************************************)
RaiseInScope(sid) ==
  /\ scopeLog = NoScopeLog
  /\ callLog.raised
  /\ sid \in ActiveScopes
  /\ LET h == scopes[sid].helper
         u == exporting_context_exit(attrs, actual[h], TRUE)
     IN /\ attrs' = u.env
        /\ scopeLog' = [op |-> "exit", sid |-> sid, raised |-> u.raised,
                        order |-> u.order]
  /\ scopes' = [scopes EXCEPT ![sid].active = FALSE]
  /\ UNCHANGED <<actual, feature_tensors_dict, output_tensors_dict,
                 crossed_columns, callLog, ncalls, explanationVars,
                 builderVars>>

(***************************************************************************)
(* The caller takes the outcome of the operation (the value returned or    *)
(* the exception) and goes on.                                             *)
(***************************************************************************)
Return ==
  /\ ~Idle
  /\ scopeLog' = NoScopeLog
  /\ callLog' = NoCallLog
  /\ UNCHANGED <<attrs, actual, feature_tensors_dict, output_tensors_dict,
                 crossed_columns, scopes, ncalls, explanationVars,
                 builderVars>>

(***************************************************************************)
(* SpecScopes: scopes entered and left in any order, on any helper.        *)
(***************************************************************************)
NextScopes ==
  \/ /\ Len(scopes) < MaxScopes
     /\ \E h \in Helpers, k \in OutputKeys : EnterScope(h, k)
  \/ \E sid \in 1..MaxScopes, raised \in BOOLEAN : ExitScope(sid, raised)
  \/ Return

SpecScopes == Init /\ [][NextScopes]_vars

(***************************************************************************)
(* Spec: scopes and calls of the entry points, inside and outside scopes.  *)
(***************************************************************************)
Next ==
  \/ /\ Len(scopes) < MaxNesting
     /\ \E h \in Helpers, k \in OutputKeys : EnterScope(h, k)
  \/ \E sid \in 1..MaxNesting, raised \in BOOLEAN : ExitScope(sid, raised)
  \/ /\ ncalls < MaxCalls
     /\ \/ \E c \in ColumnIds, t \in Tensors : CallGetDenseTensor(c, t)
        \/ \E c \in ColumnIds, t \in Tensors : CallGetSparseTensors(c, t)
        \/ \E c \in ColumnIds, t \in Tensors : CallCreateWeightedSum(c, t)
        \/ \E p \in PredictionDicts : CallExportOutputsForMode(p)
        \/ \E r \in TransformResults : CallTransformFeaturesV2(r)
  \/ \E sid \in 1..MaxNesting : RaiseInScope(sid)
  \/ Return

Spec == Init /\ [][Next]_vars

(***************************************************************************)
(* SpecCycles: several scopes, successive or nested, on any helper, with   *)
(* calls of the entry points before, inside, between and after them.       *)
(***************************************************************************)
NextCycles ==
  \/ /\ Len(scopes) < MaxScopes
     /\ \E h \in Helpers, k \in OutputKeys : EnterScope(h, k)
  \/ \E sid \in 1..MaxScopes, raised \in BOOLEAN : ExitScope(sid, raised)
  \/ /\ ncalls < MaxCycleCalls
     /\ \/ \E c \in ColumnIds, t \in Tensors : CallGetDenseTensor(c, t)
        \/ \E c \in ColumnIds, t \in Tensors : CallGetSparseTensors(c, t)
        \/ \E c \in ColumnIds, t \in Tensors : CallCreateWeightedSum(c, t)
        \/ \E p \in PredictionDicts : CallExportOutputsForMode(p)
        \/ \E r \in TransformResults : CallTransformFeaturesV2(r)
  \/ \E sid \in 1..MaxScopes : RaiseInScope(sid)
  \/ Return

SpecCycles == Init /\ [][NextCycles]_vars

(***************************************************************************)
(* SpecRecords: one export that builds two parallel input graphs for the   *)
(* categorical features: longer runs of calls on the columns whose records *)
(* take encoded observations, inside a scope that stays open.              *)
(***************************************************************************)
MaxRecordCalls == 4

RecordColumns ==
  {"color", "size", "color_weighted", "color_embedding", "cross_indicator"}

NextRecords ==
  \/ /\ Len(scopes) < MaxNesting
     /\ \E h \in Helpers : EnterScope(h, None)
  \/ /\ ncalls < MaxRecordCalls
     /\ \/ \E c \in RecordColumns, t \in Tensors : CallGetDenseTensor(c, t)
        \/ \E c \in RecordColumns, t \in Tensors : CallGetSparseTensors(c, t)
        \/ \E c \in RecordColumns, t \in Tensors : CallCreateWeightedSum(c, t)
  \/ Return

SpecRecords == Init /\ [][NextRecords]_vars

(***************************************************************************)
(* Claims about the export scope, checked under SpecScopes.                *)
(***************************************************************************)
Exited == scopeLog.op = "exit"
Entered == scopeLog.op = "enter"
TheScope == scopes[scopeLog.sid]

Pos(seq, x) == CHOOSE i \in 1..Len(seq) : seq[i] = x

\* C1: when a scope that was entered while no other scope was active has
\* exited, normally or by an exception of its body, every patched entry
\* point holds exactly the value it held just before the scope was entered.
C1_RestoredAfterExit ==
  (Exited /\ TheScope.others = {}) => attrs = TheScope.before

\* C2: entering a scope while another scope is active fails with an error
\* and installs nothing.
C2_SecondEnterFails ==
  (Entered /\ TheScope.others # {}) =>
    (scopeLog.raised /\ attrs = TheScope.before)

\* C3: once every scope that was entered has been left, whatever the
\* helpers and the order of the exits, every entry point holds the
\* framework's own function and no observing closure remains installed.
C3_OriginalsNeverClobbered ==
  (scopes # <<>> /\ ActiveScopes = {}) =>
    \A ep \in EntryPoints : attrs[ep] = Original

\* C4 as claimed: leaving a scope restores the entry points in the exact
\* reverse of the order in which entering it replaced them.
C4_RestoresInReverseOrder ==
  Exited =>
    \A i, j \in 1..Len(TheScope.installed) :
      i < j => Pos(scopeLog.order, TheScope.installed[j])
               < Pos(scopeLog.order, TheScope.installed[i])

\* C4 as amended: leaving a scope restores every entry point that entering
\* it replaced, in the same order as the installation: if A was replaced
\* before B then A is restored before B.
C4_RestoresInInstallationOrder ==
  Exited =>
    /\ SeqRange(scopeLog.order) = SeqRange(TheScope.installed)
    /\ Len(scopeLog.order) = Len(TheScope.installed)
    /\ \A i, j \in 1..Len(TheScope.installed) :
         i < j => Pos(scopeLog.order, TheScope.installed[i])
                  < Pos(scopeLog.order, TheScope.installed[j])

C4_Witness ==
  /\ Exited
  /\ Len(TheScope.installed) = Cardinality(EntryPoints)
  /\ Len(scopeLog.order) = Cardinality(EntryPoints)

(***************************************************************************)
(* Claims about the observing closures, checked under Spec.  Each closure  *)
(* that ran its recording code in the last call is judged on the registry  *)
(* of its helper just before (pre) and just after (post) that code.        *)
(***************************************************************************)
Closures == SeqRange(callLog.closures)

TheInstance == callLog.args.instance
TheResult == callLog.args.result
ThePredictions == callLog.args.predictions

\* the closures that were called at all in the last call
CalledSids == {callLog.events[i].sid : i \in 1..Len(callLog.events)} \ {0}

EventAt(i, ev, sid) ==
  callLog.events[i].ev = ev /\ callLog.events[i].sid = sid

\* the closure of scope sid called old_fn, and did so before its recording
\* code ran or raised
CalledOldFnFirst(sid) ==
  \E i \in 1..Len(callLog.events) :
    /\ EventAt(i, "old_fn", sid)
    /\ \A j \in 1..Len(callLog.events) :
         (EventAt(j, "observe", sid) \/ EventAt(j, "raise", sid)) => i < j

\* the closure of scope sid ran its recording code before it called old_fn,
\* and did not call old_fn at all when its own code raised
RecordedBeforeOldFn(sid) ==
  /\ \E i \in 1..Len(callLog.events) :
       /\ EventAt(i, "observe", sid)
       /\ \A j \in 1..Len(callLog.events) : EventAt(j, "old_fn", sid) => i < j
  /\ (\E c \in Closures : c.sid = sid /\ c.raised) =>
       ~\E j \in 1..Len(callLog.events) : EventAt(j, "old_fn", sid)

ReturnsResultUnmodified == ~callLog.raised => callLog.result = TheResult

\* C5 as claimed: every replacement calls the original first, before it
\* writes to the registry or raises, on every call including the failing
\* ones, and returns the original's result unmodified.
C5_OriginalCalledFirst ==
  /\ \A sid \in CalledSids : CalledOldFnFirst(sid)
  /\ ReturnsResultUnmodified

\* C5 as amended: the dense, sparse, weighted-sum and transform-features
\* replacements call the original first, before they write to the registry
\* or raise; the export-output replacement records (or raises) first and
\* calls the original afterwards, not at all when it raised; every
\* replacement returns the original's result unmodified.
C5_OriginalCalledFirstExceptExport ==
  /\ \A sid \in CalledSids :
       IF callLog.ep[2] = "export_outputs_for_mode"
       THEN RecordedBeforeOldFn(sid)
       ELSE CalledOldFnFirst(sid)
  /\ ReturnsResultUnmodified

\* a dense call that failed in its recording code after the original ran,
\* and an export-output call are both reached
C5_Witness ==
  /\ callLog.ep # <<>>
  /\ callLog.ep[2] = "get_dense_tensor"
  /\ callLog.raised
  /\ \E c \in Closures : c.raised /\ CalledOldFnFirst(c.sid)

(***************************************************************************)
(* What the recording policy makes of a call: the feature names an         *)
(* encoded observation is recorded under, and the name an input            *)
(* observation is recorded under.                                          *)
(***************************************************************************)
NameOf(c) == Column[c].name

KeyNames(c) == {NameOf(k) : k \in SeqRange(Column[c].keys)}

IsDenseCall == callLog.ep # <<>> /\ callLog.ep[2] = "get_dense_tensor"
IsSparseCall == callLog.ep # <<>> /\ callLog.ep[2] = "get_sparse_tensors"
IsWeightedSumCall == callLog.ep # <<>> /\ callLog.ep[2] = "_create_weighted_sum"
IsExportCall == callLog.ep # <<>> /\ callLog.ep[2] = "export_outputs_for_mode"

\* the call is routed through a crossed feature by the dense hook
DenseOnCrossed ==
  /\ IsDenseCall
  /\ HasCategoricalColumn(TheInstance)
  /\ IsCrossed(Column[TheInstance].categorical_column)

WeightedSumOnCrossed == IsWeightedSumCall /\ IsCrossed(TheInstance)

EncodedNames ==
  IF IsDenseCall /\ HasCategoricalColumn(TheInstance)
  THEN LET fc == Column[TheInstance].categorical_column
       IN IF IsBucketized(fc) THEN {}
          ELSE IF IsCrossed(fc) THEN KeyNames(fc) ELSE {NameOf(fc)}
  ELSE IF IsWeightedSumCall /\ IsCategorical(TheInstance)
          /\ ~IsBucketized(TheInstance) /\ ~IsCrossed(TheInstance)
       THEN IF HasCategoricalColumn(TheInstance)
            THEN {NameOf(Column[TheInstance].categorical_column)}
            ELSE {NameOf(TheInstance)}
       ELSE {}

\* the encoded tensors recorded under name n in a registry, with their places
EncodedOf(reg, n) ==
  IF n \in DOMAIN reg.feature_tensors
  THEN UNION {{<<i, j, reg.feature_tensors[n][i].encoded_tensors[j]>> :
                 j \in 1..Len(reg.feature_tensors[n][i].encoded_tensors)} :
              i \in 1..Len(reg.feature_tensors[n])}
  ELSE {}

\* C6: an encoded observation for a feature name that has no entry in
\* feature_tensors_dict always raises ValueError, so encoded tensors only
\* ever enter records of names that an input observation created earlier.
C6_EncodedNeedsInput ==
  \A c \in Closures :
    /\ (\E n \in EncodedNames : n \notin DOMAIN c.pre.feature_tensors)
         => c.raised
    /\ \A n \in DOMAIN c.post.feature_tensors :
         EncodedOf(c.post, n) # EncodedOf(c.pre, n)
           => n \in DOMAIN c.pre.feature_tensors

C6_Witness ==
  \E c \in Closures :
    /\ c.raised
    /\ \E n \in EncodedNames : n \notin DOMAIN c.pre.feature_tensors

(***************************************************************************)
(* C7                                                                      *)
(***************************************************************************)
CrossedNames ==
  IF DenseOnCrossed THEN KeyNames(Column[TheInstance].categorical_column)
  ELSE IF WeightedSumOnCrossed THEN KeyNames(TheInstance)
  ELSE {}

LastRecord(reg, n) == reg.feature_tensors[n][Len(reg.feature_tensors[n])]

\* the last record of n gained exactly the result tensor as its newest
\* encoded observation, and nothing else of n changed
GainedOne(c, n) ==
  /\ n \in DOMAIN c.pre.feature_tensors
  /\ n \in DOMAIN c.post.feature_tensors
  /\ Len(c.post.feature_tensors[n]) = Len(c.pre.feature_tensors[n])
  /\ \A i \in 1..Len(c.pre.feature_tensors[n]) :
       c.post.feature_tensors[n][i] =
         IF i = Len(c.pre.feature_tensors[n])
         THEN [c.pre.feature_tensors[n][i] EXCEPT
                 !.encoded_tensors = Append(@, TheResult)]
         ELSE c.pre.feature_tensors[n][i]

AlreadyEncoded(c, n) ==
  \E j \in 1..Len(LastRecord(c.pre, n).encoded_tensors) :
    LastRecord(c.pre, n).encoded_tensors[j] = TheResult

\* C7 as claimed: after a call routed through a crossed feature, by the
\* dense hook or by the weighted-sum hook, crossed_columns contains the
\* names of its keys and the record of every key has gained exactly one
\* encoded observation equal to the result tensor.
C7_CrossedFansOut ==
  \A c \in Closures :
    (DenseOnCrossed \/ WeightedSumOnCrossed) =>
      /\ CrossedNames \subseteq c.post.crossed
      /\ \A n \in CrossedNames : GainedOne(c, n)

\* C7 as amended: a dense call on a crossed feature whose keys all have a
\* record adds the names of the keys to crossed_columns and leaves the result
\* tensor in the encoded list of the last record of every key, which gains
\* exactly one entry unless it held that handle already, and changes no other
\* feature; if a key has no record the call raises ValueError.  A
\* weighted-sum call on a crossed feature adds the names of the keys to
\* crossed_columns and records no encoded observation.
C7_CrossedFansOutOnDenseOnly ==
  \A c \in Closures :
    /\ DenseOnCrossed =>
         IF CrossedNames \subseteq DOMAIN c.pre.feature_tensors
         THEN /\ ~c.raised
              /\ c.post.crossed = c.pre.crossed \cup CrossedNames
              /\ DOMAIN c.post.feature_tensors = DOMAIN c.pre.feature_tensors
              /\ \A n \in DOMAIN c.pre.feature_tensors :
                   IF n \in CrossedNames /\ ~AlreadyEncoded(c, n)
                   THEN GainedOne(c, n)
                   ELSE c.post.feature_tensors[n] = c.pre.feature_tensors[n]
         ELSE c.raised
    /\ WeightedSumOnCrossed =>
         /\ ~c.raised
         /\ c.post.crossed = c.pre.crossed \cup CrossedNames
         /\ c.post.feature_tensors = c.pre.feature_tensors

C7_Witness ==
  \E c \in Closures :
    /\ DenseOnCrossed
    /\ ~c.raised
    /\ Cardinality(CrossedNames) = 2
    /\ CrossedNames \subseteq c.post.crossed
    /\ \A n \in CrossedNames : GainedOne(c, n)

(***************************************************************************)
(* C8                                                                      *)
(***************************************************************************)
InputNames ==
  IF IsDenseCall /\ ~HasCategoricalColumn(TheInstance)
     /\ ~IsBucketized(TheInstance)
  THEN {NameOf(TheInstance)}
  ELSE IF IsSparseCall /\ ~IsCrossed(TheInstance) /\ ~IsBucketized(TheInstance)
       THEN IF IsWeighted(TheInstance)
            THEN {NameOf(Column[TheInstance].categorical_column)}
            ELSE {NameOf(TheInstance)}
       ELSE {}

RecordsOf(reg, n) ==
  IF n \in DOMAIN reg.feature_tensors THEN reg.feature_tensors[n] ELSE <<>>

RecordedUnder(c, key) ==
  /\ ~c.raised
  /\ key \in DOMAIN ThePredictions
  /\ DOMAIN c.post.outputs = DOMAIN c.pre.outputs \cup {key}
  /\ c.post.outputs[key] = ThePredictions[key]
  /\ \A k \in DOMAIN c.pre.outputs \ {key} :
       c.post.outputs[k] = c.pre.outputs[k]

ExplicitKeyHonoured(c) ==
  IF c.output_key \in DOMAIN ThePredictions
  THEN RecordedUnder(c, c.output_key)
  ELSE c.raised /\ c.post.outputs = c.pre.outputs

Registry(h) ==
  [feature_tensors |-> feature_tensors_dict[h],
   outputs |-> output_tensors_dict[h],
   crossed |-> crossed_columns[h]]

EmptyRegistry ==
  [feature_tensors |-> EmptyDict, outputs |-> EmptyDict, crossed |-> {}]

\* C11: the registry of a helper is empty until its first scope, and a call
\* of an entry point made while no scope of a helper is active leaves the
\* registry of that helper as it was.
C11_RegistryChangesOnlyInScope ==
  /\ \A h \in Helpers :
       (\A s \in 1..Len(scopes) : scopes[s].helper # h)
         => Registry(h) = EmptyRegistry
  /\ \A c \in Closures : c.helper \notin callLog.active => c.post = c.pre

\* the original a helper saved for an entry point when it patched it
SavedOriginal(saved, ep) ==
  CASE ep[2] = "get_dense_tensor" ->
         saved.get_dense_tensor_list[Pos(FEATURE_COLUMNS_TO_PATCH_DENSE, ep[1])]
    [] ep[2] = "get_sparse_tensors" ->
         saved.get_sparse_tensors_list[
           Pos(FEATURE_COLUMNS_TO_PATCH_SPARSE, ep[1])]
    [] ep[2] = "_create_weighted_sum" -> saved.create_weighted_sum
    [] ep[2] = "export_outputs_for_mode" -> saved.export_for_mode
    [] ep[2] = "_transform_features_v2" -> saved.transform

\* the scope has just been left by the ValueError of a call made in its body
ExitedByError == Exited /\ callLog.raised

\* C12: a ValueError raised by the recording code of a replacement during a
\* scope leaves the scope as an exception (it is not swallowed), and by then
\* the restoration has run in full: every entry point has been set back to
\* the original the helper saved for it, which for the only scope of a run
\* is the value it held before the scope was entered.
C12_ErrorPropagatesAfterRestore ==
  ExitedByError =>
    /\ scopeLog.raised
    /\ SeqRange(scopeLog.order) = EntryPoints
    /\ \A ep \in EntryPoints :
         attrs[ep] = SavedOriginal(actual[TheScope.helper], ep)
    /\ Len(scopes) = 1 => attrs = TheScope.before

C12_Witness ==
  /\ ExitedByError
  /\ \E c \in Closures : c.raised /\ c.sid = scopeLog.sid
  /\ scopeLog.raised
  /\ attrs = [ep \in EntryPoints |-> Original]

RegistryVars == <<feature_tensors_dict, output_tensors_dict, crossed_columns>>

\* C13: entering and leaving a scope leave feature_tensors_dict,
\* output_tensors_dict and crossed_columns of every helper unchanged, and no
\* step ever removes a feature name, an output key or a crossed name, so
\* what one scope recorded is there at the start of and after the next.
C13_RegistryKeptAcrossScopes ==
  [][/\ scopes' # scopes => UNCHANGED RegistryVars
     /\ \A h \in Helpers :
          /\ DOMAIN feature_tensors_dict[h] \subseteq DOMAIN feature_tensors_dict'[h]
          /\ DOMAIN output_tensors_dict[h] \subseteq DOMAIN output_tensors_dict'[h]
          /\ crossed_columns[h] \subseteq crossed_columns'[h]]_vars

\* a second scope of a helper has just been entered, after its first scope
\* was left, and what the first scope recorded is in the registry
C13_Witness ==
  /\ Entered
  /\ scopeLog.sid = 2
  /\ scopes[1].helper = scopes[2].helper
  /\ ~scopes[1].active
  /\ Registry(scopes[2].helper) # EmptyRegistry

(***************************************************************************)
(* Explanation (model/explanation.py), built from a response by            *)
(* Explanation.from_ai_platform_response and queried by get_attribution    *)
(* and feature_importance.  Attribution values are in units of 0.01 and    *)
(* example scores in units of 0.00001.  The optional class_index is <<>>   *)
(* when it is omitted and <<i>> when it is i.                              *)
(***************************************************************************)
MaxAttributions == 2   \* attributions in a response

\* the sub-feature names the modality map declares
SubFeatures == <<"data", "test">>

LabelIndices == {2, 170}

ClassIndices == {<<>>, <<2>>, <<9>>, <<170>>}

ExampleScores == {17658, 40000}

AttributionValues == {<<0, 0, 0>>, <<1, 2, 3>>, <<10, 20, 30>>, <<30, 1, 13>>}

Attribution(label_index, example_score, attributions) ==
  [label_index |-> label_index, example_score |-> example_score,
   attributions |-> attributions]

Attributions ==
  {Attribution(l, e, a) :
     l \in LabelIndices, e \in ExampleScores,
     a \in [SeqRange(SubFeatures) -> AttributionValues]}

\* a response holds one attribution per label index
Responses ==
  UNION {{r \in [1..n -> Attributions] :
            \A i, j \in 1..n : i # j => r[i].label_index # r[j].label_index} :
         n \in 1..MaxAttributions}

\* the first attribution of the highest example score, scanning in order
RECURSIVE max_example_score(_, _, _)
max_example_score(resp, i, best) ==
  IF i > Len(resp) THEN best
  ELSE max_example_score(
         resp, i + 1,
         IF resp[i].example_score > resp[best].example_score THEN i ELSE best)

\* Variant that keeps the last attribution of the highest example score.
get_attribution_last_seen(resp, class_index) ==
  IF class_index # <<>>
  THEN IF \E i \in 1..Len(resp) : resp[i].label_index = class_index[1]
       THEN [raised |-> "",
             value |-> resp[CHOOSE i \in 1..Len(resp) :
                              resp[i].label_index = class_index[1]]]
       ELSE [raised |-> "KeyError", value |-> None]
  ELSE [raised |-> "",
        value |-> resp[CHOOSE i \in 1..Len(resp) :
                         /\ \A j \in 1..Len(resp) :
                              resp[j].example_score <= resp[i].example_score
                         /\ \A j \in (i + 1)..Len(resp) :
                              resp[j].example_score < resp[i].example_score]]

\* get_attribution(class_index=None)
get_attribution(resp, class_index) ==
  IF class_index # <<>>
  THEN IF \E i \in 1..Len(resp) : resp[i].label_index = class_index[1]
       THEN [raised |-> "",
             value |-> resp[CHOOSE i \in 1..Len(resp) :
                              resp[i].label_index = class_index[1]]]
       ELSE [raised |-> "KeyError", value |-> None]
  ELSE [raised |-> "", value |-> resp[max_example_score(resp, 2, 1)]]

Magnitude(v) == IF v < 0 THEN 0 - v ELSE v

RECURSIVE magnitude_sum(_)
magnitude_sum(values) ==
  IF values = <<>> THEN 0
  ELSE Magnitude(Head(values)) + magnitude_sum(Tail(values))

\* Variant that leaves out the groups whose importance is zero.
feature_importance_without_zeros(resp, class_index) ==
  LET a == get_attribution(resp, class_index)
  IN IF a.raised # "" THEN a
     ELSE [raised |-> "",
           value |-> [g \in {n \in SeqRange(SubFeatures) :
                               magnitude_sum(a.value.attributions[n]) # 0} |->
                        magnitude_sum(a.value.attributions[g])]]

\* feature_importance(class_index=None)
feature_importance(resp, class_index) ==
  LET a == get_attribution(resp, class_index)
  IN IF a.raised # "" THEN a
     ELSE [raised |-> "",
           value |-> [g \in SeqRange(SubFeatures) |->
                        magnitude_sum(a.value.attributions[g])]]

InitExplanation ==
  /\ InitPatch
  /\ NoBuilder
  /\ response \in Responses
  /\ explanationLog = NoExplanationLog

GetAttribution(class_index) ==
  /\ LET r == get_attribution(response, class_index)
     IN explanationLog' = [op |-> "get_attribution",
                           class_index |-> class_index,
                           raised |-> r.raised, value |-> r.value]
  /\ UNCHANGED <<response, patchVars, builderVars>>

FeatureImportance(class_index) ==
  /\ LET r == feature_importance(response, class_index)
     IN explanationLog' = [op |-> "feature_importance",
                           class_index |-> class_index,
                           raised |-> r.raised, value |-> r.value]
  /\ UNCHANGED <<response, patchVars, builderVars>>

NextExplanation ==
  \/ \E class_index \in ClassIndices : GetAttribution(class_index)
  \/ \E class_index \in ClassIndices : FeatureImportance(class_index)

SpecExplanation == InitExplanation /\ [][NextExplanation]_vars

(***************************************************************************)
(* SavedModelMetadataBuilder (metadata/tf/v2/saved_model_metadata_builder   *)
(* .py).  _inputs and _outputs are dictionaries from a name to a metadata  *)
(* entry.  input_baselines and visualization are stored as given and       *)
(* decide nothing, so they are left out of the entries;                    *)
(* index_feature_mapping is TRUE when a non-empty list is given.           *)
(***************************************************************************)
MaxBuilderOps == 3   \* builder operations in a run of SpecBuilder

InputSignatureNames == {"x1", "x2"}
OutputSignatureNames == {"y1", "y2"}

\* names the user passes to the operations
InputNameArgs == InputSignatureNames \cup {"renamed"}
OutputNameArgs == OutputSignatureNames \cup {"renamed"}

Signatures ==
  {[inputs |-> i, outputs |-> o] :
     i \in (SUBSET InputSignatureNames) \ {{}},
     o \in (SUBSET OutputSignatureNames) \ {{}}}

\* explain_metadata.InputMetadata(name, input_tensor_name, ...)
InputMetadata(name, input_tensor_name, index_feature_mapping, encoding, modality) ==
  [name |-> name, input_tensor_name |-> input_tensor_name,
   index_feature_mapping |-> index_feature_mapping,
   encoding |-> encoding, modality |-> modality]

\* explain_metadata.OutputMetadata(name, output_tensor_name)
OutputMetadata(name, output_tensor_name) ==
  [name |-> name, output_tensor_name |-> output_tensor_name]

\* d.pop(k) / del d[k], for a key that is present
DictPop(d, k) == [x \in (DOMAIN d) \ {k} |-> d[x]]

DictValues(d) == {d[k] : k \in DOMAIN d}

\* _infer_metadata_entries_from_model: one entry per name of the signature;
\* more than one output only prints an advisory.
infer_metadata_entries_from_model(sig) ==
  [input_mds |-> [name \in sig.inputs |->
                    InputMetadata(name, name, FALSE, "default", "default")],
   advisory |-> Cardinality(sig.outputs) > 1,
   output_mds |-> [name \in sig.outputs |-> OutputMetadata(name, name)]]

\* Each operation returns the dictionary as it leaves it and raised, "" or
\* the name of the exception.
\* Variant that takes the new name as the name of the tensor too.
set_numeric_metadata_retargets(inputs, input_name, new_name, index_feature_mapping) ==
  IF input_name \notin DOMAIN inputs
  THEN [raised |-> "ValueError", dict |-> inputs]
  ELSE LET name == IF Truthy(new_name) THEN new_name ELSE input_name
           encoding == IF index_feature_mapping THEN "BAG_OF_FEATURES"
                       ELSE "IDENTITY"
       IN [raised |-> "",
           dict |-> DictPut(DictPop(inputs, input_name), name,
                            InputMetadata(name, name, index_feature_mapping,
                                          encoding, "default"))]

set_numeric_metadata(inputs, input_name, new_name, index_feature_mapping) ==
  IF input_name \notin DOMAIN inputs
  THEN [raised |-> "ValueError", dict |-> inputs]
  ELSE LET name == IF Truthy(new_name) THEN new_name ELSE input_name
           tensor_name == inputs[input_name].input_tensor_name
           encoding == IF index_feature_mapping THEN "BAG_OF_FEATURES"
                       ELSE "IDENTITY"
       IN [raised |-> "",
           dict |-> DictPut(DictPop(inputs, input_name), name,
                            InputMetadata(name, tensor_name,
                                          index_feature_mapping, encoding,
                                          "default"))]

set_image_metadata(inputs, input_name, new_name) ==
  IF input_name \notin DOMAIN inputs
  THEN [raised |-> "ValueError", dict |-> inputs]
  ELSE LET name == IF Truthy(new_name) THEN new_name ELSE input_name
           tensor_name == inputs[input_name].input_tensor_name
       IN [raised |-> "",
           dict |-> DictPut(DictPop(inputs, input_name), name,
                            InputMetadata(name, tensor_name, FALSE,
                                          "default", "IMAGE"))]

set_output_metadata(outputs, output_name, new_name) ==
  IF output_name \notin DOMAIN outputs
  THEN [raised |-> "ValueError", dict |-> outputs]
  ELSE IF output_name = new_name
       THEN [raised |-> "", dict |-> outputs]
       ELSE LET old_output == outputs[output_name]
            IN [raised |-> "",
                dict |-> DictPut(DictPop(outputs, output_name), new_name,
                                 OutputMetadata(new_name,
                                                old_output.output_tensor_name))]

remove_input_metadata(inputs, name) ==
  IF name \notin DOMAIN inputs
  THEN [raised |-> "ValueError", dict |-> inputs]
  ELSE [raised |-> "", dict |-> DictPop(inputs, name)]

\* Variant that ignores a name that is not present.
remove_output_metadata_ignoring(outputs, name) ==
  [raised |-> "", dict |-> [x \in (DOMAIN outputs) \ {name} |-> outputs[x]]]

remove_output_metadata(outputs, name) ==
  IF name \notin DOMAIN outputs
  THEN [raised |-> "ValueError", dict |-> outputs]
  ELSE [raised |-> "", dict |-> DictPop(outputs, name)]

\* get_metadata(): the entries of both dictionaries with the framework and tag
get_metadata(inputs, outputs) ==
  [inputs |-> DictValues(inputs), outputs |-> DictValues(outputs),
   framework |-> "TENSORFLOW2"]

\* Variant that writes whatever the number of outputs.
save_metadata_unchecked(inputs, outputs, files) ==
  [raised |-> "", files |-> Append(files, get_metadata(inputs, outputs))]

\* save_metadata(file_path)
save_metadata(inputs, outputs, files) ==
  IF Cardinality(DOMAIN outputs) > 1
  THEN [raised |-> "ValueError", files |-> files]
  ELSE [raised |-> "", files |-> Append(files, get_metadata(inputs, outputs))]

\* SavedModelMetadataBuilder(model_path, signature_name)
InitBuilder ==
  /\ InitPatch
  /\ NoExplanation
  /\ signature \in Signatures
  /\ _inputs = infer_metadata_entries_from_model(signature).input_mds
  /\ _outputs = infer_metadata_entries_from_model(signature).output_mds
  /\ written = <<>>
  /\ builderLog = NoBuilderLog
  /\ nops = 0

BuilderIdle == builderLog.op = "none"

BuilderPre == [inputs |-> _inputs, outputs |-> _outputs, written |-> written]

BuilderOp(op, name, new_name, raised) ==
  /\ BuilderIdle
  /\ nops < MaxBuilderOps
  /\ nops' = nops + 1
  /\ builderLog' = [op |-> op, name |-> name, new_name |-> new_name,
                    raised |-> raised, pre |-> BuilderPre]
  /\ UNCHANGED <<signature, patchVars, explanationVars>>

SetNumericMetadata(input_name, new_name, index_feature_mapping) ==
  LET r == set_numeric_metadata(_inputs, input_name, new_name,
                                index_feature_mapping)
  IN /\ BuilderOp("set_numeric_metadata", input_name, new_name, r.raised)
     /\ _inputs' = r.dict
     /\ UNCHANGED <<_outputs, written>>

SetImageMetadata(input_name, new_name) ==
  LET r == set_image_metadata(_inputs, input_name, new_name)
  IN /\ BuilderOp("set_image_metadata", input_name, new_name, r.raised)
     /\ _inputs' = r.dict
     /\ UNCHANGED <<_outputs, written>>

SetOutputMetadata(output_name, new_name) ==
  LET r == set_output_metadata(_outputs, output_name, new_name)
  IN /\ BuilderOp("set_output_metadata", output_name, new_name, r.raised)
     /\ _outputs' = r.dict
     /\ UNCHANGED <<_inputs, written>>

RemoveInputMetadata(name) ==
  LET r == remove_input_metadata(_inputs, name)
  IN /\ BuilderOp("remove_input_metadata", name, None, r.raised)
     /\ _inputs' = r.dict
     /\ UNCHANGED <<_outputs, written>>

RemoveOutputMetadata(name) ==
  LET r == remove_output_metadata(_outputs, name)
  IN /\ BuilderOp("remove_output_metadata", name, None, r.raised)
     /\ _outputs' = r.dict
     /\ UNCHANGED <<_inputs, written>>

SaveMetadata ==
  LET r == save_metadata(_inputs, _outputs, written)
  IN /\ BuilderOp("save_metadata", None, None, r.raised)
     /\ written' = r.files
     /\ UNCHANGED <<_inputs, _outputs>>

\* the caller takes the outcome of the operation and goes on
BuilderReturn ==
  /\ ~BuilderIdle
  /\ builderLog' = NoBuilderLog
  /\ UNCHANGED <<signature, _inputs, _outputs, written, nops, patchVars,
                 explanationVars>>

NewNameArgs == {None, ""} \cup InputNameArgs

NextBuilder ==
  \/ \E n \in InputNameArgs, new_name \in NewNameArgs, m \in BOOLEAN :
       SetNumericMetadata(n, new_name, m)
  \/ \E n \in InputNameArgs, new_name \in NewNameArgs :
       SetImageMetadata(n, new_name)
  \/ \E n \in OutputNameArgs, new_name \in OutputNameArgs :
       SetOutputMetadata(n, new_name)
  \/ \E n \in InputNameArgs : RemoveInputMetadata(n)
  \/ \E n \in OutputNameArgs : RemoveOutputMetadata(n)
  \/ SaveMetadata
  \/ BuilderReturn

SpecBuilder == InitBuilder /\ [][NextBuilder]_vars

(***************************************************************************)
(* C14, C15                                                                *)
(***************************************************************************)
Labels == {response[i].label_index : i \in 1..Len(response)}

GotAttribution == explanationLog.op = "get_attribution"
GotImportance == explanationLog.op = "feature_importance"
TheClassIndex == explanationLog.class_index

\* the attribution the last operation selected is the i-th of the response
SelectedIs(a, i) == a = response[i]

\* C14: get_attribution with a class_index that is a label index of the
\* response returns the attribution of that label index; with no class_index
\* it returns the attribution of the maximum example score, the first one in
\* the order of the response when several share it; with a class_index that
\* is no label index of the response it raises KeyError.
C14_GetAttribution ==
  GotAttribution =>
    IF TheClassIndex = <<>>
    THEN /\ explanationLog.raised = ""
         /\ \E i \in 1..Len(response) :
              /\ SelectedIs(explanationLog.value, i)
              /\ \A j \in 1..Len(response) :
                   response[j].example_score <= response[i].example_score
              /\ \A j \in 1..(i - 1) :
                   response[j].example_score < response[i].example_score
    ELSE IF TheClassIndex[1] \in Labels
         THEN /\ explanationLog.raised = ""
              /\ explanationLog.value.label_index = TheClassIndex[1]
              /\ \E i \in 1..Len(response) :
                   SelectedIs(explanationLog.value, i)
         ELSE explanationLog.raised = "KeyError"

\* two attributions share the highest example score and the first is returned
C14_Witness ==
  /\ GotAttribution
  /\ TheClassIndex = <<>>
  /\ Len(response) = 2
  /\ response[1].example_score = response[2].example_score
  /\ explanationLog.value = response[1]

\* the sum of a sequence of values, by position
RECURSIVE SumTo(_, _)
SumTo(values, n) == IF n = 0 THEN 0 ELSE SumTo(values, n - 1) + values[n]

\* the attribution feature_importance works on
SelectedAttribution ==
  IF TheClassIndex = <<>>
  THEN response[CHOOSE i \in 1..Len(response) :
                  /\ \A j \in 1..Len(response) :
                       response[j].example_score <= response[i].example_score
                  /\ \A j \in 1..(i - 1) :
                       response[j].example_score < response[i].example_score]
  ELSE response[CHOOSE i \in 1..Len(response) :
                  response[i].label_index = TheClassIndex[1]]

InputOps ==
  {"set_numeric_metadata", "set_image_metadata", "remove_input_metadata"}

OutputOps == {"set_output_metadata", "remove_output_metadata"}

\* the name the last operation addressed was not in the dictionary it uses
AddressedMissingName ==
  \/ /\ builderLog.op \in InputOps
     /\ builderLog.name \notin DOMAIN builderLog.pre.inputs
  \/ /\ builderLog.op \in OutputOps
     /\ builderLog.name \notin DOMAIN builderLog.pre.outputs

\* C16: an operation of the builder that addresses an input or an output by
\* a name that is not in the metadata at that moment raises ValueError and
\* leaves the input and output metadata as they were, also for a name that
\* an earlier rename or removal took away; with the name present it raises
\* nothing.
C16_MissingNameFails ==
  (builderLog.op \in InputOps \cup OutputOps) =>
    IF AddressedMissingName
    THEN /\ builderLog.raised = "ValueError"
         /\ _inputs = builderLog.pre.inputs
         /\ _outputs = builderLog.pre.outputs
    ELSE builderLog.raised = ""

\* an output of the signature that was renamed or removed is addressed again
C16_Witness ==
  /\ builderLog.op = "remove_output_metadata"
  /\ builderLog.name \in signature.outputs
  /\ AddressedMissingName
  /\ builderLog.raised = "ValueError"

\* C17: building from a signature of several outputs keeps every output;
\* save_metadata raises ValueError and writes nothing whenever more than one
\* output remains, and writes the metadata once at most one remains.
C17_MultipleOutputs ==
  /\ nops = 0 => /\ DOMAIN _outputs = signature.outputs
                 /\ DOMAIN _inputs = signature.inputs
  /\ builderLog.op = "save_metadata" =>
       IF Cardinality(DOMAIN builderLog.pre.outputs) > 1
       THEN /\ builderLog.raised = "ValueError"
            /\ written = builderLog.pre.written
       ELSE /\ builderLog.raised = ""
            /\ written = Append(builderLog.pre.written,
                                get_metadata(_inputs, _outputs))

\* the signature had two outputs, one was removed, and the save succeeded
C17_Witness ==
  /\ builderLog.op = "save_metadata"
  /\ builderLog.raised = ""
  /\ Cardinality(signature.outputs) = 2
  /\ Cardinality(DOMAIN _outputs) = 1
  /\ Len(written) = 1

(***************************************************************************)
(* C18, C19, C20: what the hooks record for each kind of subject.          *)
(***************************************************************************)
IsTransformCall ==
  callLog.ep # <<>> /\ callLog.ep[2] = "_transform_features_v2"

IsColumnHookCall == IsDenseCall \/ IsSparseCall \/ IsWeightedSumCall

BucketizedNames == {NameOf(c) : c \in {b \in ColumnIds : IsBucketized(b)}}

\* the call is routed through a bucketized composite: the subject is one, or
\* the nested categorical sub-column of a dense subject is one
ThroughBucketized ==
  /\ IsColumnHookCall
  /\ \/ IsBucketized(TheInstance)
     \/ /\ IsDenseCall
        /\ HasCategoricalColumn(TheInstance)
        /\ IsBucketized(Column[TheInstance].categorical_column)

\* C18 as claimed: whatever calls of the replaced entry points are made,
\* the bulk transform-features hook included, no key of feature_tensors_dict
\* is the name of a bucketized composite.
C18_BucketizedNeverRecorded ==
  \A h \in Helpers : DOMAIN feature_tensors_dict[h] \cap BucketizedNames = {}

\* C18 as amended: a dense, sparse or weighted-sum call routed through a
\* bucketized composite records nothing and raises nothing, and no such
\* hook ever creates a key that is the name of a bucketized composite; the
\* transform-features hook does record a bucketized feature of its result,
\* as an input observation under its own name, when the name has no entry.
C18_BucketizedNotRecordedByColumnHooks ==
  \A c \in Closures :
    /\ ThroughBucketized => (~c.raised /\ c.post = c.pre)
    /\ IsColumnHookCall =>
         (DOMAIN c.post.feature_tensors \cap BucketizedNames)
           \subseteq DOMAIN c.pre.feature_tensors
    /\ IsTransformCall =>
         \A b \in DOMAIN TheResult :
           (IsBucketized(b) /\ NameOf(b) \notin DOMAIN c.pre.feature_tensors)
             => /\ NameOf(b) \in DOMAIN c.post.feature_tensors
                /\ c.post.feature_tensors[NameOf(b)] =
                     <<[input_tensor |-> TheResult[b],
                        encoded_tensors |-> <<>>]>>

\* a dense call whose nested sub-column is bucketized ran a closure that
\* recorded nothing
C18_Witness ==
  /\ IsDenseCall
  /\ ThroughBucketized
  /\ HasCategoricalColumn(TheInstance)
  /\ \E c \in Closures : ~c.raised /\ c.post = c.pre

\* the result tensor is the input tensor of a record of name n
HasInput(reg, n, t) ==
  /\ n \in DOMAIN reg.feature_tensors
  /\ \E i \in 1..Len(reg.feature_tensors[n]) :
       reg.feature_tensors[n][i].input_tensor = t

\* nothing but the records of name n differs between pre and post
OnlyChanged(c, n) ==
  /\ c.post.outputs = c.pre.outputs
  /\ c.post.crossed = c.pre.crossed
  /\ DOMAIN c.post.feature_tensors = DOMAIN c.pre.feature_tensors \cup {n}
  /\ \A k \in DOMAIN c.pre.feature_tensors \ {n} :
       c.post.feature_tensors[k] = c.pre.feature_tensors[k]

\* C19: a sparse call on a plain categorical feature records its result as
\* an input observation under the feature's own name; on a weighted
\* categorical feature it records the input observation under the name of
\* the wrapped base feature and nothing under the wrapper's name; on a
\* crossed or bucketized subject it records nothing.
C19_SparseHookNaming ==
  \A c \in Closures :
    IsSparseCall =>
      /\ ~c.raised
      /\ IF IsCrossed(TheInstance) \/ IsBucketized(TheInstance)
         THEN c.post = c.pre
         ELSE IF IsWeighted(TheInstance)
              THEN LET base == NameOf(Column[TheInstance].categorical_column)
                   IN /\ HasInput(c.post, base, TheResult)
                      /\ OnlyChanged(c, base)
                      /\ NameOf(TheInstance) \notin DOMAIN c.post.feature_tensors
              ELSE /\ HasInput(c.post, NameOf(TheInstance), TheResult)
                   /\ OnlyChanged(c, NameOf(TheInstance))

\* a sparse call on the weighted column created the record of its base
C19_Witness ==
  /\ IsSparseCall
  /\ IsWeighted(TheInstance)
  /\ \E c \in Closures :
       /\ "color" \notin DOMAIN c.pre.feature_tensors
       /\ HasInput(c.post, "color", TheResult)
       /\ NameOf(TheInstance) \notin DOMAIN c.post.feature_tensors

\* the records of every name have the input tensors they had
SameInputs(c) ==
  /\ DOMAIN c.post.feature_tensors = DOMAIN c.pre.feature_tensors
  /\ \A k \in DOMAIN c.pre.feature_tensors :
       InputTensors(c.post.feature_tensors[k]) =
         InputTensors(c.pre.feature_tensors[k])

\* the encoded tensors of every record are the ones it had
SameEncoded(c) ==
  \A k \in DOMAIN c.pre.feature_tensors :
    \A i \in 1..Len(c.pre.feature_tensors[k]) :
      c.post.feature_tensors[k][i].encoded_tensors =
        c.pre.feature_tensors[k][i].encoded_tensors

\* the dense subject has a nested categorical sub-column that is neither
\* bucketized nor crossed
DenseOnCategorical ==
  /\ IsDenseCall
  /\ HasCategoricalColumn(TheInstance)
  /\ ~IsBucketized(Column[TheInstance].categorical_column)
  /\ ~IsCrossed(Column[TheInstance].categorical_column)

DenseOnPlain ==
  /\ IsDenseCall
  /\ ~HasCategoricalColumn(TheInstance)
  /\ ~IsBucketized(TheInstance)

\* C20: a dense call whose subject has a nested categorical sub-column that
\* is neither bucketized nor crossed records its result as an encoded
\* observation in the last record of the sub-column's name and creates no
\* input record (it raises and records nothing when that name has no record,
\* as C6 says); a dense call whose subject has no nested sub-column and is
\* not bucketized records its result as an input observation under the
\* subject's own name and adds no encoded observation.
C20_DenseHookClassification ==
  \A c \in Closures :
    /\ DenseOnCategorical =>
         LET sub == NameOf(Column[TheInstance].categorical_column)
         IN IF sub \in DOMAIN c.pre.feature_tensors
            THEN /\ ~c.raised
                 /\ SameInputs(c)
                 /\ HandleIn(TheResult, LastRecord(c.post, sub).encoded_tensors)
                 /\ NameOf(TheInstance) \notin DOMAIN c.post.feature_tensors
            ELSE c.raised /\ c.post = c.pre
    /\ DenseOnPlain =>
         /\ ~c.raised
         /\ HasInput(c.post, NameOf(TheInstance), TheResult)
         /\ OnlyChanged(c, NameOf(TheInstance))
         /\ SameEncoded(c)

\* the embedding of a recorded categorical feature was recorded as encoded
C20_Witness ==
  /\ DenseOnCategorical
  /\ \E c \in Closures :
       /\ ~c.raised
       /\ LastRecord(c.pre, "color").encoded_tensors = <<>>
       /\ LastRecord(c.post, "color").encoded_tensors = <<TheResult>>
       /\ SameInputs(c)

(***************************************************************************)
(* C21: the fallback of the transform-features hook.                       *)
(***************************************************************************)
\* what the hook stores for feature fc of the result: a sparse tensor is
\* wrapped in an IdWeightPair without weights
TransformStored(fc) ==
  IF TheResult[fc].sparse THEN IdWeightPair(TheResult[fc], None)
  ELSE TheResult[fc]

\* fc has no nested categorical sub-column and its name had no entry
GetsRecord(c, fc) ==
  /\ ~HasCategoricalColumn(fc)
  /\ NameOf(fc) \notin DOMAIN c.pre.feature_tensors

\* C21: after the transform-features hook has delegated to the original,
\* each feature of the result gets an input record if and only if it has no
\* nested categorical sub-column and its name had no entry in
\* feature_tensors_dict; a feature that already had records keeps them as
\* they were, with no additional record and no replaced tensor, and nothing
\* else of the registry changes.
C21_TransformFallback ==
  \A c \in Closures :
    IsTransformCall =>
      /\ ~c.raised
      /\ c.post.outputs = c.pre.outputs
      /\ c.post.crossed = c.pre.crossed
      /\ \A fc \in DOMAIN TheResult :
           IF GetsRecord(c, fc)
           THEN /\ NameOf(fc) \in DOMAIN c.post.feature_tensors
                /\ c.post.feature_tensors[NameOf(fc)] =
                     <<FeatureTensors(TransformStored(fc))>>
           ELSE /\ NameOf(fc) \in DOMAIN c.post.feature_tensors
                     <=> NameOf(fc) \in DOMAIN c.pre.feature_tensors
                /\ RecordsOf(c.post, NameOf(fc)) = RecordsOf(c.pre, NameOf(fc))
      /\ DOMAIN c.post.feature_tensors =
           DOMAIN c.pre.feature_tensors
             \cup {NameOf(fc) : fc \in {f \in DOMAIN TheResult : GetsRecord(c, f)}}
      /\ \A k \in DOMAIN c.pre.feature_tensors :
           c.post.feature_tensors[k] = c.pre.feature_tensors[k]

\* the result had a feature recorded earlier with another tensor, whose
\* record was kept, and a feature that had no entry, which got its record
C21_Witness ==
  /\ IsTransformCall
  /\ {"color", "size"} \subseteq DOMAIN TheResult
  /\ \E c \in Closures :
       /\ "color" \in DOMAIN c.pre.feature_tensors
       /\ ~HasInput(c.pre, "color", TransformStored("color"))
       /\ c.post.feature_tensors["color"] = c.pre.feature_tensors["color"]
       /\ "size" \notin DOMAIN c.pre.feature_tensors
       /\ c.post.feature_tensors["size"] =
            <<FeatureTensors(TransformStored("size"))>>

(***************************************************************************)
(* C22, C23: the lists of records.                                         *)
(***************************************************************************)
\* the input observations of the call made by closure c, each a name and
\* the handle passed to _add_input_tensor_to_dict under it
ObservedInputs(c) ==
  IF IsTransformCall
  THEN {<<NameOf(fc), TransformStored(fc)>> :
          fc \in {f \in DOMAIN TheResult : GetsRecord(c, f)}}
  ELSE {<<n, TheResult>> : n \in InputNames}

ObservedNames(c) == {o[1] : o \in ObservedInputs(c)}

\* no two records of the list have the same input handle
DistinctInputs(list) ==
  \A i, j \in 1..Len(list) :
    i # j => ~HandleEq(list[i].input_tensor, list[j].input_tensor)

\* C22: the number of records under a name is the number of distinct input
\* handles observed for it: no two records of a name hold the same handle,
\* an input observation lengthens the list of its name by one when its
\* handle is not yet the input of a record of the name and by nothing when
\* it is, and no list changes its length otherwise.
C22_OneRecordPerDistinctInput ==
  /\ \A h \in Helpers : \A n \in DOMAIN feature_tensors_dict[h] :
       DistinctInputs(feature_tensors_dict[h][n])
  /\ \A c \in Closures :
       /\ \A o \in ObservedInputs(c) :
            /\ HasInput(c.post, o[1], o[2])
            /\ Len(RecordsOf(c.post, o[1])) =
                 Len(RecordsOf(c.pre, o[1]))
                   + (IF HandleIn(o[2], InputTensors(RecordsOf(c.pre, o[1])))
                      THEN 0 ELSE 1)
       /\ \A n \in (DOMAIN c.pre.feature_tensors
                      \cup DOMAIN c.post.feature_tensors) \ ObservedNames(c) :
            Len(RecordsOf(c.post, n)) = Len(RecordsOf(c.pre, n))

\* a name observed with two handles has two records, and the observation
\* of one of them again has left the list as it was
C22_Witness ==
  \E c \in Closures : \E o \in ObservedInputs(c) :
    /\ Len(RecordsOf(c.pre, o[1])) = 2
    /\ HasInput(c.pre, o[1], o[2])
    /\ c.post.feature_tensors[o[1]] = c.pre.feature_tensors[o[1]]

\* C23: every key of feature_tensors_dict maps to a non-empty list of
\* records; a record keeps the input tensor it was created with, and a
\* record is created with the handle of the input observation that made
\* it and no encoded tensor; so an encoded observation for a name that is
\* a key finds its last record and does not raise.
C23_ListsNonEmpty ==
  /\ \A h \in Helpers : \A n \in DOMAIN feature_tensors_dict[h] :
       Len(feature_tensors_dict[h][n]) >= 1
  /\ \A c \in Closures :
       /\ \A n \in DOMAIN c.pre.feature_tensors :
            /\ n \in DOMAIN c.post.feature_tensors
            /\ Len(c.post.feature_tensors[n]) >= Len(c.pre.feature_tensors[n])
            /\ \A i \in 1..Len(c.pre.feature_tensors[n]) :
                 c.post.feature_tensors[n][i].input_tensor =
                   c.pre.feature_tensors[n][i].input_tensor
       /\ \A n \in DOMAIN c.post.feature_tensors :
            \A i \in (Len(RecordsOf(c.pre, n)) + 1)
                       ..Len(c.post.feature_tensors[n]) :
              \E o \in ObservedInputs(c) :
                /\ o[1] = n
                /\ c.post.feature_tensors[n][i] = FeatureTensors(o[2])
       /\ (EncodedNames # {}
           /\ EncodedNames \subseteq DOMAIN c.pre.feature_tensors)
            => ~c.raised

\* an encoded observation found the last of two records of its name
C23_Witness ==
  \E c \in Closures : \E n \in EncodedNames :
    /\ ~c.raised
    /\ Len(RecordsOf(c.pre, n)) = 2
    /\ c.post.feature_tensors[n][1] = c.pre.feature_tensors[n][1]
    /\ c.post.feature_tensors[n][2].input_tensor =
         c.pre.feature_tensors[n][2].input_tensor
    /\ c.post.feature_tensors[n][2].encoded_tensors = <<TheResult>>

(***************************************************************************)
(* C24: the frame of an encoded observation.                               *)
(***************************************************************************)
\* the records of name n before the call, with the result tensor appended
\* to the encoded list of the last one unless it is in that list
WithEncodedInLast(c, n) ==
  LET list == c.pre.feature_tensors[n]
      last == Len(list)
  IN IF HandleIn(TheResult, list[last].encoded_tensors)
     THEN list
     ELSE [list EXCEPT ![last].encoded_tensors = Append(@, TheResult)]

\* C24: an encoded observation for a feature is appended only to the most
\* recently created record of that feature: the earlier records of the
\* feature, every record of every feature the call makes no encoded
\* observation for, and every input tensor are left as they were, and the
\* tensor is skipped only if it is already in the encoded list of that last
\* record, also when an earlier record of the feature holds it.  (A call
\* that raised on a later key has made its encoded observations for the
\* keys before it, or none.)
C24_EncodedOnlyInLastRecord ==
  \A c \in Closures :
    EncodedNames # {} =>
      /\ SameInputs(c)
      /\ c.post.outputs = c.pre.outputs
      /\ \A k \in DOMAIN c.pre.feature_tensors :
           IF k \in EncodedNames
           THEN IF c.raised
                THEN c.post.feature_tensors[k]
                       \in {c.pre.feature_tensors[k], WithEncodedInLast(c, k)}
                ELSE c.post.feature_tensors[k] = WithEncodedInLast(c, k)
           ELSE c.post.feature_tensors[k] = c.pre.feature_tensors[k]

\* the tensor was in the encoded list of the first record of the feature
\* and not in that of the second and last: it was appended to the last,
\* while another feature had records
C24_Witness ==
  \E c \in Closures : \E n \in EncodedNames :
    /\ ~c.raised
    /\ Len(c.pre.feature_tensors[n]) = 2
    /\ HandleIn(TheResult, c.pre.feature_tensors[n][1].encoded_tensors)
    /\ c.pre.feature_tensors[n][2].encoded_tensors = <<>>
    /\ c.post.feature_tensors[n][1] = c.pre.feature_tensors[n][1]
    /\ c.post.feature_tensors[n][2].encoded_tensors = <<TheResult>>

(***************************************************************************)
(* C25: the registry after a replacement has raised.                       *)
(***************************************************************************)
\* C25 as claimed: a replacement that raises ValueError leaves the registry
\* as it was before the call: feature_tensors_dict, output_tensors_dict and
\* crossed_columns are unchanged, also for a dense call on a crossed
\* feature of which some key has no input record.
C25_FailedCallChangesNothing ==
  \A c \in Closures : c.raised => c.post = c.pre

\* the keys of the crossed feature of a dense call, and the place of the
\* first of them whose name has no entry
CrossedKeys == Column[Column[TheInstance].categorical_column].keys

MissingKeys(c) ==
  {i \in 1..Len(CrossedKeys) :
     NameOf(CrossedKeys[i]) \notin DOMAIN c.pre.feature_tensors}

FirstMissing(c) == CHOOSE i \in MissingKeys(c) : \A j \in MissingKeys(c) : i <= j

\* C25 as amended: a replacement that raises ValueError leaves the registry
\* of its helper as it was before the call, except in a dense call on a
\* crossed feature of which some key has no input record: there
\* crossed_columns has gained the names of the keys up to and including the
\* first one without an input record, and the last record of each key
\* before that one has gained the result tensor as an encoded observation
\* unless it held it; output_tensors_dict, the keys of feature_tensors_dict
\* and every other record are unchanged.
C25_FailedCallChangesOnlyCrossedPrefix ==
  \A c \in Closures :
    c.raised =>
      IF DenseOnCrossed
      THEN /\ MissingKeys(c) # {}
           /\ c.post.outputs = c.pre.outputs
           /\ c.post.crossed =
                c.pre.crossed
                  \cup {NameOf(CrossedKeys[i]) : i \in 1..FirstMissing(c)}
           /\ DOMAIN c.post.feature_tensors = DOMAIN c.pre.feature_tensors
           /\ \A k \in DOMAIN c.pre.feature_tensors :
                c.post.feature_tensors[k] =
                  IF \E i \in 1..(FirstMissing(c) - 1) :
                       NameOf(CrossedKeys[i]) = k
                  THEN WithEncodedInLast(c, k)
                  ELSE c.pre.feature_tensors[k]
      ELSE c.post = c.pre

\* a dense call on the indicator of the crossed feature raised on its
\* second key after it had recorded under its first
C25_Witness ==
  /\ DenseOnCrossed
  /\ \E c \in Closures :
       /\ c.raised
       /\ "color" \in DOMAIN c.pre.feature_tensors
       /\ "size" \notin DOMAIN c.pre.feature_tensors
       /\ c.pre.crossed = {}
       /\ c.post.crossed = {"color", "size"}
       /\ LastRecord(c.pre, "color").encoded_tensors = <<>>
       /\ LastRecord(c.post, "color").encoded_tensors = <<TheResult>>

(***************************************************************************)
(* C26: renaming in the metadata builder.                                  *)
(***************************************************************************)
RenameOps ==
  {"set_numeric_metadata", "set_image_metadata", "set_output_metadata"}

\* an operation that can rename has returned without raising
Renamed == builderLog.op \in RenameOps /\ builderLog.raised = ""

\* the dictionary the operation works on, before and after it
RenamedPre ==
  IF builderLog.op \in InputOps THEN builderLog.pre.inputs
  ELSE builderLog.pre.outputs

RenamedPost == IF builderLog.op \in InputOps THEN _inputs ELSE _outputs

\* the name of the tensor of an entry of either dictionary
TensorNameOf(d, k) ==
  IF builderLog.op \in InputOps THEN d[k].input_tensor_name
  ELSE d[k].output_tensor_name

\* the name the entry has after the operation
TargetName ==
  IF Truthy(builderLog.new_name) THEN builderLog.new_name ELSE builderLog.name

\* C26: renaming preserves the identity of the tensor: whatever
\* set_numeric_metadata, set_image_metadata and set_output_metadata calls
\* were made, the tensor name of each entry is a name of the signature,
\* the one the entry was inferred with (each call hands the tensor name of
\* the entry it addresses on to the entry it stores and touches no other
\* tensor name, and no two entries have the same tensor name); and a rename
\* to a new name that is not the name of an existing entry replaces exactly
\* one entry: the old name is absent, the new name present, every other
\* entry and the number of entries unchanged.
C26_RenameKeepsTensor ==
  /\ \A k \in DOMAIN _inputs :
       /\ _inputs[k].name = k
       /\ _inputs[k].input_tensor_name \in signature.inputs
       /\ \A j \in DOMAIN _inputs :
            _inputs[j].input_tensor_name = _inputs[k].input_tensor_name
              => j = k
  /\ \A k \in DOMAIN _outputs :
       /\ _outputs[k].name = k
       /\ _outputs[k].output_tensor_name \in signature.outputs
       /\ \A j \in DOMAIN _outputs :
            _outputs[j].output_tensor_name = _outputs[k].output_tensor_name
              => j = k
  /\ Renamed =>
       /\ TargetName \in DOMAIN RenamedPost
       /\ TensorNameOf(RenamedPost, TargetName) =
            TensorNameOf(RenamedPre, builderLog.name)
       /\ DOMAIN RenamedPost =
            (DOMAIN RenamedPre \ {builderLog.name}) \cup {TargetName}
       /\ \A k \in DOMAIN RenamedPost \ {TargetName} :
            RenamedPost[k] = RenamedPre[k]
       /\ TargetName \notin DOMAIN RenamedPre =>
            /\ builderLog.name \notin DOMAIN RenamedPost
            /\ Cardinality(DOMAIN RenamedPost) =
                 Cardinality(DOMAIN RenamedPre)
  /\ (builderLog.op \in InputOps /\ Renamed) =>
       _outputs = builderLog.pre.outputs
  /\ (builderLog.op = "set_output_metadata" /\ Renamed) =>
       _inputs = builderLog.pre.inputs

\* an input that had been renamed before was renamed again to a name no
\* entry had: it still has the tensor name of the signature, and the other
\* input is as it was
C26_Witness ==
  /\ builderLog.op = "set_numeric_metadata"
  /\ Renamed
  /\ builderLog.new_name = "x1"
  /\ builderLog.name = "renamed"
  /\ "x1" \notin DOMAIN builderLog.pre.inputs
  /\ DOMAIN _inputs = {"x1", "x2"}
  /\ _inputs["x1"].input_tensor_name = "x2"
  /\ _inputs["x2"].input_tensor_name = "x1"
  /\ _inputs["x2"] = builderLog.pre.inputs["x2"]

====
